---- MODULE Spec2Model ----
(***************************************************************************)
(* Model of the ELDQM hazard-assessment engine: the chemical property      *)
(* store, the unit converter, the zone computation (calculateDispersion),  *)
(* the mass balance, the blast assessment, the leak detection, the         *)
(* detailed results with the concentration profile and the detection       *)
(* statistics, the protective actions, the sensor placement and the        *)
(* weather classification.                                                 *)
(*                                                                         *)
(* Numbers.  A JavaScript number is modelled as a fixed-point integer that *)
(* counts thousandths (Milli): 1.0 is 1000, 0.95 is 950, 24.45 is 24450.   *)
(* Products and quotients round towards minus infinity.  NaN is a value of *)
(* its own that every arithmetic operator propagates and every comparison  *)
(* rejects, as IEEE-754 does; Undefined is the value of an absent optional *)
(* field.                                                                  *)
(***************************************************************************)
EXTENDS Integers, Sequences, FiniteSets, TLC

VARIABLES call, result, prev

vars == <<call, result, prev>>

(***************************************************************************)
(* Fixed-point arithmetic                                                  *)
(***************************************************************************)
Milli == 10^3

NaN == 0 - 2147483647

Undefined == 0 - 2147483646

IsNaN(x) == x = NaN

\* A JavaScript number used as a condition: 0, NaN and undefined are falsy.
Truthy(x) == x # 0 /\ x # NaN /\ x # Undefined

\* a || b on numbers.
OrElse(a, b) == IF Truthy(a) THEN a ELSE b

Abs(x) == IF x < 0 THEN 0 - x ELSE x

\* floor(a * b / c) for c > 0, without forming the product a * b: the larger
\* factor is split into its quotient and remainder by c.
MulDiv(a, b, c) ==
    LET hi == IF Abs(a) >= Abs(b) THEN a ELSE b
        lo == IF Abs(a) >= Abs(b) THEN b ELSE a
    IN  (hi \div c) * lo + ((hi % c) * lo) \div c

FMul(a, b) == IF IsNaN(a) \/ IsNaN(b) THEN NaN ELSE MulDiv(a, b, Milli)

\* Division by a non-zero number.
FDiv(a, b) ==
    IF IsNaN(a) \/ IsNaN(b) THEN NaN
    ELSE IF b > 0 THEN MulDiv(a, Milli, b)
    ELSE MulDiv(0 - a, Milli, 0 - b)

FAdd(a, b) == IF IsNaN(a) \/ IsNaN(b) THEN NaN ELSE a + b

FSub(a, b) == IF IsNaN(a) \/ IsNaN(b) THEN NaN ELSE a - b

\* Math.max and Math.min return NaN when an argument is NaN.
MathMax(a, b) == IF IsNaN(a) \/ IsNaN(b) THEN NaN ELSE IF a >= b THEN a ELSE b

MathMin(a, b) == IF IsNaN(a) \/ IsNaN(b) THEN NaN ELSE IF a <= b THEN a ELSE b

\* Comparisons: false as soon as an operand is NaN.
Lt(a, b) == ~IsNaN(a) /\ ~IsNaN(b) /\ a < b

Le(a, b) == ~IsNaN(a) /\ ~IsNaN(b) /\ a <= b

Gt(a, b) == Lt(b, a)

Ge(a, b) == Le(b, a)

RECURSIVE SqrtIter(_, _, _)
\* The largest r in lo..hi with r*r <= x * Milli, by bisection.
SqrtIter(x, lo, hi) ==
    IF lo >= hi THEN lo
    ELSE LET mid == (lo + hi + 1) \div 2
             sq == mid * mid
         IN  IF sq \div Milli < x \/ (sq \div Milli = x /\ sq % Milli = 0)
             THEN SqrtIter(x, mid, hi)
             ELSE SqrtIter(x, lo, mid - 1)

\* Math.sqrt: NaN for a negative argument.
MathSqrt(x) ==
    IF IsNaN(x) \/ x < 0 THEN NaN ELSE SqrtIter(x, 0, 46340)

\* The Taylor polynomial of exp on [0, ln 2).
ExpSmall(x) ==
    LET t2 == MulDiv(x, x, 2 * Milli)
        t3 == MulDiv(t2, x, 3 * Milli)
        t4 == MulDiv(t3, x, 4 * Milli)
        t5 == MulDiv(t4, x, 5 * Milli)
        t6 == MulDiv(t5, x, 6 * Milli)
    IN  Milli + x + t2 + t3 + t4 + t5 + t6

\* exp(x) for x >= 0 as 2^k * exp(x - k * ln 2), ln 2 = 0.693147.
ExpPos(x) ==
    LET k == (x * Milli) \div 693147
        r == x - (k * 693147) \div Milli
    IN  (2^k) * ExpSmall(r)

\* Math.exp.
MathExp(x) == IF x < 0 THEN MulDiv(Milli, Milli, ExpPos(0 - x)) ELSE ExpPos(x)

RECURSIVE Log10Frac(_, _, _)
\* The fractional part of log10(y) for y in [1, 10) held in ten-thousandths:
\* square y, and each time the square reaches 10 the next binary digit is 1.
Log10Frac(y, bit, n) ==
    IF n = 0 THEN 0
    ELSE LET sq == MulDiv(y, y, 10^4)
         IN  IF sq >= 10^5
             THEN bit + Log10Frac(sq \div 10, bit \div 2, n - 1)
             ELSE Log10Frac(sq, bit \div 2, n - 1)

RECURSIVE Log10Int(_)
\* Math.log10 of x >= 1: the decades first, then the fraction.
Log10Int(x) ==
    IF x >= 10 * Milli THEN Milli + Log10Int(x \div 10)
    ELSE (Log10Frac(x * 10, 2^15, 12) * Milli) \div 2^16

MathLog10(x) == Log10Int(x)

(***************************************************************************)
(* The chemical property store (every value in thousandths)                *)
(***************************************************************************)
ChlorineData ==
    [molecularWeight |-> 70910, boilingPoint |-> 0 - 34040, vaporPressure |-> 5168000,
     specificGravity |-> 1410, lel |-> 0, uel |-> 0,
     aegl1 |-> 500, aegl2 |-> 2000, aegl3 |-> 20000,
     explosionEnergy |-> 0, reactivityHazard |-> 3000, blastPotential |-> 1000]

AmmoniaData ==
    [molecularWeight |-> 17030, boilingPoint |-> 0 - 33340, vaporPressure |-> 6870000,
     specificGravity |-> 682, lel |-> 15000, uel |-> 28000,
     aegl1 |-> 30000, aegl2 |-> 160000, aegl3 |-> 1100000,
     explosionEnergy |-> 382000, reactivityHazard |-> 3000, blastPotential |-> 5000]

HydrogenSulfideData ==
    [molecularWeight |-> 34080, boilingPoint |-> 0 - 60330, vaporPressure |-> 15600000,
     specificGravity |-> 920, lel |-> 4000, uel |-> 44000,
     aegl1 |-> 510, aegl2 |-> 27000, aegl3 |-> 50000,
     explosionEnergy |-> 207000, reactivityHazard |-> 3000, blastPotential |-> 6000]

SulfurDioxideData ==
    [molecularWeight |-> 64070, boilingPoint |-> 0 - 10000, vaporPressure |-> 2538000,
     specificGravity |-> 1434, lel |-> 0, uel |-> 0,
     aegl1 |-> 200, aegl2 |-> 750, aegl3 |-> 30000,
     explosionEnergy |-> 0, reactivityHazard |-> 2000, blastPotential |-> 2000]

MethaneData ==
    [molecularWeight |-> 16040, boilingPoint |-> 0 - 161500, vaporPressure |-> 760000000,
     specificGravity |-> 420, lel |-> 5000, uel |-> 15000,
     aegl1 |-> 0, aegl2 |-> 0, aegl3 |-> 0,
     explosionEnergy |-> 882000, reactivityHazard |-> 0, blastPotential |-> 8000]

CarbonMonoxideData ==
    [molecularWeight |-> 28010, boilingPoint |-> 0 - 191500, vaporPressure |-> 760000000,
     specificGravity |-> 970, lel |-> 12500, uel |-> 74000,
     aegl1 |-> 0, aegl2 |-> 83000, aegl3 |-> 330000,
     explosionEnergy |-> 283000, reactivityHazard |-> 0, blastPotential |-> 7000]

BenzeneData ==
    [molecularWeight |-> 78110, boilingPoint |-> 80100, vaporPressure |-> 75000,
     specificGravity |-> 880, lel |-> 1200, uel |-> 7800,
     aegl1 |-> 52000, aegl2 |-> 800000, aegl3 |-> 4000000,
     explosionEnergy |-> 3300000, reactivityHazard |-> 2000, blastPotential |-> 6000]

EthyleneOxideData ==
    [molecularWeight |-> 44050, boilingPoint |-> 10400, vaporPressure |-> 1095000,
     specificGravity |-> 882, lel |-> 3000, uel |-> 100000,
     aegl1 |-> 5000, aegl2 |-> 45000, aegl3 |-> 85000,
     explosionEnergy |-> 1700000, reactivityHazard |-> 4000, blastPotential |-> 9000]

HydrogenCyanideData ==
    [molecularWeight |-> 27030, boilingPoint |-> 25600, vaporPressure |-> 630000,
     specificGravity |-> 687, lel |-> 5600, uel |-> 40000,
     aegl1 |-> 1000, aegl2 |-> 7100, aegl3 |-> 15000,
     explosionEnergy |-> 720000, reactivityHazard |-> 3000, blastPotential |-> 7000]

PhosgeneData ==
    [molecularWeight |-> 98920, boilingPoint |-> 8300, vaporPressure |-> 1173000,
     specificGravity |-> 1432, lel |-> 0, uel |-> 0,
     aegl1 |-> 0, aegl2 |-> 200, aegl3 |-> 590,
     explosionEnergy |-> 0, reactivityHazard |-> 3000, blastPotential |-> 3000]

ChemicalNames ==
    {"chlorine", "ammonia", "hydrogen sulfide", "sulfur dioxide", "methane",
     "carbon monoxide", "benzene", "ethylene oxide", "hydrogen cyanide", "phosgene"}

chemicalDatabase ==
    [n \in ChemicalNames |->
        CASE n = "chlorine" -> ChlorineData
          [] n = "ammonia" -> AmmoniaData
          [] n = "hydrogen sulfide" -> HydrogenSulfideData
          [] n = "sulfur dioxide" -> SulfurDioxideData
          [] n = "methane" -> MethaneData
          [] n = "carbon monoxide" -> CarbonMonoxideData
          [] n = "benzene" -> BenzeneData
          [] n = "ethylene oxide" -> EthyleneOxideData
          [] n = "hydrogen cyanide" -> HydrogenCyanideData
          [] n = "phosgene" -> PhosgeneData]

\* The ids the callers pass: the stored names, a stored name in another
\* letter case, and a name the store does not hold.
ChemicalIds == ChemicalNames \cup {"Chlorine", "acetone"}

\* String.prototype.toLowerCase on the ids above.
toLowerCase(id) == IF id = "Chlorine" THEN "chlorine" ELSE id

\* chemicalDatabase[id.toLowerCase()] is defined.
Found(id) == toLowerCase(id) \in ChemicalNames

Lookup(id) == chemicalDatabase[toLowerCase(id)]

(***************************************************************************)
(* Zone computation: calculateDispersion                                   *)
(***************************************************************************)
NoWeatherImpact ==
    [present |-> FALSE, windFactor |-> Undefined, stabilityClass |-> "",
     dispersionMultiplier |-> Undefined]

getStabilityFactor(stabilityClass) ==
    CASE stabilityClass = "A" -> 500
      [] stabilityClass = "B" -> 700
      [] stabilityClass = "C" -> 900
      [] stabilityClass = "D" -> 1000
      [] stabilityClass = "E" -> 1200
      [] stabilityClass = "F" -> 1500
      [] OTHER -> 1000

\* The case labels of the switch of getStabilityFactor; every other class takes
\* the default branch.
StabilityFactorCases == {"A", "B", "C", "D", "E", "F"}

\* params.weatherImpact?.stabilityClass || params.stabilityClass
EffectiveStabilityClass(params) ==
    IF params.weatherImpact.present /\ params.weatherImpact.stabilityClass # ""
    THEN params.weatherImpact.stabilityClass
    ELSE params.stabilityClass

TemperatureFactor(params) ==
    FAdd(Milli, FDiv(FSub(params.temperature, 20 * Milli), 100 * Milli))

HumidityFactor(params) ==
    IF Truthy(params.relativeHumidity)
    THEN FSub(Milli, FDiv(params.relativeHumidity, 200 * Milli))
    ELSE IF Truthy(params.humidity)
    THEN FSub(Milli, FDiv(params.humidity, 200 * Milli))
    ELSE Milli

PressureFactor(params) ==
    IF Truthy(params.ambientPressure)
    THEN FDiv(params.ambientPressure, 1013250)
    ELSE Milli

TerrainFactor(params) ==
    CASE params.terrain = "urban" -> 800
      [] params.terrain = "forest" -> 700
      [] params.terrain = "water" -> 1200
      [] OTHER -> 1000

ContainmentFactor(params) == IF params.isIndoor THEN 300 ELSE 1000

WeatherImpactFactor(params) ==
    IF params.weatherImpact.present
    THEN OrElse(params.weatherImpact.dispersionMultiplier, Milli)
    ELSE Milli

AdjustedReleaseRate(params) ==
    FMul(FMul(FMul(FMul(FMul(FMul(params.releaseRate,
        TemperatureFactor(params)), HumidityFactor(params)),
        PressureFactor(params)), TerrainFactor(params)),
        ContainmentFactor(params)), WeatherImpactFactor(params))

\* params.weatherImpact?.windFactor || Math.sqrt(params.windSpeed) / 2
WindFactor(params) ==
    IF params.weatherImpact.present /\ Truthy(params.weatherImpact.windFactor)
    THEN params.weatherImpact.windFactor
    ELSE FDiv(MathSqrt(params.windSpeed), 2 * Milli)

BaseDistance(params) ==
    FMul(FMul(MathSqrt(AdjustedReleaseRate(params)),
              getStabilityFactor(EffectiveStabilityClass(params))),
         WindFactor(params))

ChemicalFactor(chemicalType) ==
    IF Found(chemicalType)
    THEN LET chemicalData == Lookup(chemicalType)
             molecularWeightFactor ==
                 FDiv(MathSqrt(chemicalData.molecularWeight), 10 * Milli)
             vaporPressureFactor ==
                 FDiv(MathLog10(MathMax(Milli, chemicalData.vaporPressure)), 3 * Milli)
         IN  MathMax(800, MathMin(2000, FMul(molecularWeightFactor, vaporPressureFactor)))
    ELSE CASE toLowerCase(chemicalType) = "chlorine" -> 1500
           [] toLowerCase(chemicalType) = "ammonia" -> 1300
           [] OTHER -> 1200

\* Faulty variant of ZoneConcentrations: no default when the chemical is not found.
ZoneConcentrationsNoDefault(chemicalType) ==
    IF Found(chemicalType)
    THEN [red |-> OrElse(Lookup(chemicalType).aegl3, 5 * Milli),
          orange |-> OrElse(Lookup(chemicalType).aegl2, 3 * Milli),
          yellow |-> OrElse(Lookup(chemicalType).aegl1, 1 * Milli)]
    ELSE [red |-> 0, orange |-> 0, yellow |-> 0]

\* chemicalData?.aegl3 || 5, chemicalData?.aegl2 || 3, chemicalData?.aegl1 || 1
ZoneConcentrations(chemicalType) ==
    IF Found(chemicalType)
    THEN [red |-> OrElse(Lookup(chemicalType).aegl3, 5 * Milli),
          orange |-> OrElse(Lookup(chemicalType).aegl2, 3 * Milli),
          yellow |-> OrElse(Lookup(chemicalType).aegl1, 1 * Milli)]
    ELSE [red |-> 5 * Milli, orange |-> 3 * Milli, yellow |-> 1 * Milli]

\* 0.95 + Math.random() * 0.1, for the value random that Math.random() returned.
RandomFactor(random) == 950 + MulDiv(random, 100, Milli)

\* Faulty variant of ZoneDistances: the orange distance is capped at 4 km, below the cap
\* of the red distance.
ZoneDistancesOrangeCapLow(reach, randomFactor) ==
    LET redDistance == FMul(reach, 300)
        orangeDistance == FMul(reach, 600)
        yellowDistance == FMul(reach, 1000)
    IN  [red |-> MathMax(500, MathMin(5 * Milli, FMul(redDistance, randomFactor))),
         orange |-> MathMax(1000, MathMin(4 * Milli, FMul(orangeDistance, randomFactor))),
         yellow |-> MathMax(1500, MathMin(15 * Milli, FMul(yellowDistance, randomFactor)))]

\* The three distances, clamped, for the product reach = baseDistance * chemicalFactor.
ZoneDistances(reach, randomFactor) ==
    LET redDistance == FMul(reach, 300)
        orangeDistance == FMul(reach, 600)
        yellowDistance == FMul(reach, 1000)
    IN  [red |-> MathMax(500, MathMin(5 * Milli, FMul(redDistance, randomFactor))),
         orange |-> MathMax(1000, MathMin(8 * Milli, FMul(orangeDistance, randomFactor))),
         yellow |-> MathMax(1500, MathMin(15 * Milli, FMul(yellowDistance, randomFactor)))]

\* calculateDispersion(params), with the value the call draws from Math.random().
calculateDispersion(params, random) ==
    LET reach == FMul(BaseDistance(params), ChemicalFactor(params.chemicalType))
        d == ZoneDistances(reach, RandomFactor(random))
        c == ZoneConcentrations(params.chemicalType)
    IN  [red |-> [distance |-> d.red, concentration |-> c.red],
         orange |-> [distance |-> d.orange, concentration |-> c.orange],
         yellow |-> [distance |-> d.yellow, concentration |-> c.yellow]]

(***************************************************************************)
(* Unit conversion: convertConcentrationUnit                               *)
(***************************************************************************)
ConcentrationUnits == {"mg/m3", "ppm", "percent"}

\* The molecular weight in hundredths: 24.45 / MW is 2445 / MolecularWeightCenti.
MolecularWeightCenti(chemData) == chemData.molecularWeight \div 10

\* (value * MW) / 24.45
PpmToMgM3(value, chemData) == MulDiv(value, MolecularWeightCenti(chemData), 2445)

\* Faulty variant of MgM3ToPpm: the molar volume at 0 degrees, 22.4, is used
\* on the way back.
MgM3ToPpmAtZeroDegrees(value, chemData) ==
    MulDiv(value, 2240, MolecularWeightCenti(chemData))

\* (value * 24.45) / MW
MgM3ToPpm(value, chemData) == MulDiv(value, 2445, MolecularWeightCenti(chemData))

convertConcentrationUnit(value, chemical, fromUnit, toUnit) ==
    IF fromUnit = toUnit THEN value
    ELSE IF ~Found(chemical) THEN value
    ELSE LET chemData == Lookup(chemical)
             intermediateMgM3 ==
                 CASE fromUnit = "ppm" -> PpmToMgM3(value, chemData)
                   [] fromUnit = "percent" -> PpmToMgM3(value * 10000, chemData)
                   [] fromUnit = "mg/m3" -> value
         IN  CASE toUnit = "ppm" -> MgM3ToPpm(intermediateMgM3, chemData)
               [] toUnit = "percent" -> MgM3ToPpm(intermediateMgM3, chemData) \div 10000
               [] toUnit = "mg/m3" -> intermediateMgM3

(***************************************************************************)
(* Mass balance: calculateMassBalance                                      *)
(***************************************************************************)
\* Math.exp(0.0555 * (temperature - 20))
EvaporationTempFactor(temperature) ==
    MathExp(MulDiv(temperature - 20 * Milli, 555, 10^4))

IsGasAtAmbient(chemData, temperature) == Lt(chemData.boilingPoint, temperature)

\* 0.2 + 0.8 * (vaporPressure / 760) * tempFactor, clamped to [0.1, 1.0]; the
\* product is carried in millionths before it is rounded.
VaporFraction(chemData, temperature) ==
    IF IsGasAtAmbient(chemData, temperature) THEN Milli
    ELSE LET vaporPressureFactor == MulDiv(chemData.vaporPressure, Milli, 760)
             product == MulDiv(MulDiv(800, vaporPressureFactor, Milli),
                               EvaporationTempFactor(temperature), Milli)
         IN  MathMin(Milli, MathMax(100, 200 + product \div Milli))

\* Faulty variant of PoolFormation: the pool takes the vapor fraction, not the rest.
PoolFormationOfVaporFraction(isGasAtAmbient, totalReleased, vaporFraction) ==
    IF isGasAtAmbient THEN 0 ELSE FMul(totalReleased, vaporFraction)

PoolFormation(isGasAtAmbient, totalReleased, vaporFraction) ==
    IF isGasAtAmbient THEN 0 ELSE FMul(totalReleased, Milli - vaporFraction)

\* 0.005 * (vaporPressure / 100) * sqrt(18 / MW) * tempFactor * sqrt(pool), at
\* most a tenth of the pool per minute; the product is carried in millionths.
PoolEvaporationRate(chemData, temperature, poolFormation) ==
    IF ~IsGasAtAmbient(chemData, temperature) /\ poolFormation > 0
    THEN LET vaporPressureFactor == FDiv(chemData.vaporPressure, 100 * Milli)
             molecularWeightFactor ==
                 MathSqrt(FDiv(18 * Milli, chemData.molecularWeight))
             product == MulDiv(MulDiv(MulDiv(5 * vaporPressureFactor,
                                             molecularWeightFactor, Milli),
                                      EvaporationTempFactor(temperature), Milli),
                               MathSqrt(poolFormation), Milli)
         IN  MathMin(product \div Milli, FDiv(poolFormation, 10 * Milli))
    ELSE 0

\* Faulty variant of PoolEvaporation: the evaporated mass is not capped by the pool.
PoolEvaporationUncapped(poolFormation, poolEvaporationRate, duration) ==
    FMul(poolEvaporationRate, duration)

PoolEvaporation(poolFormation, poolEvaporationRate, duration) ==
    MathMin(poolFormation, FMul(poolEvaporationRate, duration))

Infinity == 2147483646 + 1

\* a / b where b may be zero.
Quotient(a, b) ==
    IF b # 0 THEN FDiv(a, b)
    ELSE IF a > 0 THEN Infinity
    ELSE IF a < 0 THEN 0 - Infinity
    ELSE NaN

MassBalanceNotFound ==
    [totalReleased |-> 0, massReleaseRate |-> 0, vaporGenerated |-> 0,
     vaporGenerationRate |-> 0, poolFormation |-> 0, poolEvaporation |-> 0,
     poolEvaporationRate |-> 0, airborneRelease |-> 0,
     massBalance |-> [k \in {} |-> 0],
     timeToEmpty |-> Undefined, poolDuration |-> Undefined, poolArea |-> Undefined]

calculateMassBalance(chemical, releaseRate, duration, temperature, pressure, containerVolume, initialMass) ==
    IF ~Found(chemical) THEN MassBalanceNotFound
    ELSE LET chemData == Lookup(chemical)
             totalReleased == FMul(releaseRate, duration)
             isGasAtAmbient == IsGasAtAmbient(chemData, temperature)
             vaporFraction == VaporFraction(chemData, temperature)
             vaporGenerated == FMul(totalReleased, vaporFraction)
             vaporGenerationRate == FMul(releaseRate, vaporFraction)
             poolFormation ==
                 PoolFormation(isGasAtAmbient, totalReleased, vaporFraction)
             poolEvaporationRate ==
                 PoolEvaporationRate(chemData, temperature, poolFormation)
             poolEvaporation ==
                 PoolEvaporation(poolFormation, poolEvaporationRate, duration)
             airborneRelease == vaporGenerated + poolEvaporation
             timeToEmpty ==
                 IF Truthy(containerVolume) /\ Truthy(initialMass)
                 THEN Quotient(initialMass, releaseRate)
                 ELSE Undefined
             liquidDensity == FMul(chemData.specificGravity, 1000 * Milli)
             poolArea ==
                 IF poolFormation > 0
                 THEN FMul(FDiv(poolFormation, liquidDensity), 100 * Milli)
                 ELSE Undefined
             poolDuration ==
                 IF poolFormation > 0 /\ poolEvaporation > 0
                 THEN Quotient(poolFormation, poolEvaporationRate)
                 ELSE Undefined
         IN  [totalReleased |-> totalReleased, massReleaseRate |-> releaseRate,
              vaporGenerated |-> vaporGenerated,
              vaporGenerationRate |-> vaporGenerationRate,
              poolFormation |-> poolFormation, poolEvaporation |-> poolEvaporation,
              poolEvaporationRate |-> poolEvaporationRate,
              airborneRelease |-> airborneRelease,
              massBalance |->
                  [k \in {"Initial vapor", "Pool formation", "Pool evaporation",
                          "Remaining in pool", "Total airborne"} |->
                      CASE k = "Initial vapor" -> vaporGenerated
                        [] k = "Pool formation" -> poolFormation
                        [] k = "Pool evaporation" -> poolEvaporation
                        [] k = "Remaining in pool" -> poolFormation - poolEvaporation
                        [] k = "Total airborne" -> airborneRelease],
              timeToEmpty |-> timeToEmpty, poolDuration |-> poolDuration,
              poolArea |-> poolArea]

(***************************************************************************)
(* Blast assessment: assessBlastPotential                                  *)
(***************************************************************************)
\* The order None < Low < Moderate < High < Extreme of RiskLevel.
RiskRank(level) ==
    CASE level = "None" -> 0
      [] level = "Low" -> 1
      [] level = "Moderate" -> 2
      [] level = "High" -> 3
      [] level = "Extreme" -> 4

raiseRiskLevel(currentLevel) ==
    CASE currentLevel = "None" -> "Low"
      [] currentLevel = "Low" -> "Moderate"
      [] currentLevel = "Moderate" -> "High"
      [] currentLevel = "High" -> "Extreme"
      [] currentLevel = "Extreme" -> "Extreme"
      [] OTHER -> currentLevel

IsFlammable(chemData, concentrationPercent) ==
    /\ Gt(chemData.lel, 0)
    /\ Ge(concentrationPercent, chemData.lel)
    /\ Le(concentrationPercent, chemData.uel)

\* Faulty variant of FlammabilityRisk: the Low and Moderate bands below LEL are swapped.
FlammabilityRiskBandsSwapped(chemData, concentrationPercent) ==
    IF chemData.lel = 0 /\ chemData.uel = 0 THEN "None"
    ELSE IF Lt(concentrationPercent, FMul(chemData.lel, 100)) THEN "Moderate"
    ELSE IF Lt(concentrationPercent, FMul(chemData.lel, 500)) THEN "Low"
    ELSE IF Lt(concentrationPercent, chemData.lel) THEN "High"
    ELSE IF IsFlammable(chemData, concentrationPercent) THEN "Extreme"
    ELSE IF Gt(concentrationPercent, chemData.uel) THEN "Moderate"
    ELSE "None"

FlammabilityRisk(chemData, concentrationPercent) ==
    IF chemData.lel = 0 /\ chemData.uel = 0 THEN "None"
    ELSE IF Lt(concentrationPercent, FMul(chemData.lel, 100)) THEN "Low"
    ELSE IF Lt(concentrationPercent, FMul(chemData.lel, 500)) THEN "Moderate"
    ELSE IF Lt(concentrationPercent, chemData.lel) THEN "High"
    ELSE IF IsFlammable(chemData, concentrationPercent) THEN "Extreme"
    ELSE IF Gt(concentrationPercent, chemData.uel) THEN "Moderate"
    ELSE "None"

\* Faulty variant of BaseExplosionRisk: a highly reactive chemical is at least at
\* High, whatever its flammability risk.
BaseExplosionRiskReactiveHigh(chemData, concentrationPercent) ==
    LET flammabilityRisk == FlammabilityRisk(chemData, concentrationPercent)
    IN  IF chemData.lel = 0 /\ chemData.uel = 0 THEN "None"
        ELSE IF Ge(chemData.reactivityHazard, 3 * Milli)
                \/ Ge(chemData.blastPotential, 7 * Milli)
        THEN IF flammabilityRisk = "Extreme" THEN "Extreme" ELSE "High"
        ELSE IF IsFlammable(chemData, concentrationPercent) THEN "High"
        ELSE IF Ge(concentrationPercent, FMul(chemData.lel, 500)) THEN "Moderate"
        ELSE IF Ge(concentrationPercent, FMul(chemData.lel, 100)) THEN "Low"
        ELSE "None"

\* The explosion risk before the temperature and pressure escalation.
BaseExplosionRisk(chemData, concentrationPercent) ==
    LET flammabilityRisk == FlammabilityRisk(chemData, concentrationPercent)
    IN  IF chemData.lel = 0 /\ chemData.uel = 0 THEN "None"
        ELSE IF Ge(chemData.reactivityHazard, 3 * Milli)
                \/ Ge(chemData.blastPotential, 7 * Milli)
        THEN IF flammabilityRisk \in {"Extreme", "High", "Moderate"}
             THEN flammabilityRisk
             ELSE "Low"
        ELSE IF IsFlammable(chemData, concentrationPercent) THEN "High"
        ELSE IF Ge(concentrationPercent, FMul(chemData.lel, 500)) THEN "Moderate"
        ELSE IF Ge(concentrationPercent, FMul(chemData.lel, 100)) THEN "Low"
        ELSE "None"

\* Faulty variant of EscalatedExplosionRisk: a None risk is escalated too.
EscalatedExplosionRiskOfNone(baseRisk, temperature, pressureFactor) ==
    LET first == IF Gt(temperature, 50 * Milli) /\ Gt(pressureFactor, 1200)
                 THEN raiseRiskLevel(baseRisk)
                 ELSE baseRisk
    IN  IF Gt(temperature, 100 * Milli) \/ Gt(pressureFactor, 2 * Milli)
        THEN raiseRiskLevel(first)
        ELSE first

EscalatedExplosionRisk(baseRisk, temperature, pressureFactor) ==
    IF baseRisk = "None" THEN baseRisk
    ELSE LET first == IF Gt(temperature, 50 * Milli) /\ Gt(pressureFactor, 1200)
                      THEN raiseRiskLevel(baseRisk)
                      ELSE baseRisk
         IN  IF Gt(temperature, 100 * Milli) \/ Gt(pressureFactor, 2 * Milli)
             THEN raiseRiskLevel(first)
             ELSE first

\* level * tempFactor * pressureFactor * (explosionEnergy || 300) / 300
PotentialOverpressure(explosionRisk, tempFactor, pressureFactor, chemData) ==
    LET level == CASE explosionRisk = "Extreme" -> 10 * Milli
                   [] explosionRisk = "High" -> 5 * Milli
                   [] explosionRisk = "Moderate" -> 2 * Milli
                   [] explosionRisk = "Low" -> 500
                   [] OTHER -> 0
    IN  IF explosionRisk = "None" THEN 0
        ELSE FDiv(FMul(FMul(FMul(level, tempFactor), pressureFactor),
                       OrElse(chemData.explosionEnergy, 300 * Milli)),
                  300 * Milli)

\* level * tempFactor * (explosionEnergy || 300) / 300
PotentialThermalRadiation(flammabilityRisk, tempFactor, chemData) ==
    LET level == CASE flammabilityRisk = "Extreme" -> 25 * Milli
                   [] flammabilityRisk = "High" -> 10 * Milli
                   [] flammabilityRisk = "Moderate" -> 5 * Milli
                   [] flammabilityRisk = "Low" -> 1 * Milli
                   [] OTHER -> 0
    IN  IF flammabilityRisk = "None" THEN 0
        ELSE FDiv(FMul(FMul(level, tempFactor),
                       OrElse(chemData.explosionEnergy, 300 * Milli)),
                  300 * Milli)

SafeDistance(explosionRisk, potentialOverpressure) ==
    CASE explosionRisk = "Extreme" ->
            FMul(1000 * Milli, MathSqrt(FDiv(potentialOverpressure, 10 * Milli)))
      [] explosionRisk = "High" ->
            FMul(500 * Milli, MathSqrt(FDiv(potentialOverpressure, 5 * Milli)))
      [] explosionRisk = "Moderate" ->
            FMul(250 * Milli, MathSqrt(FDiv(potentialOverpressure, 2 * Milli)))
      [] explosionRisk = "Low" ->
            FMul(100 * Milli, MathSqrt(FDiv(potentialOverpressure, 500)))
      [] OTHER -> 100 * Milli

\* The comment, as the list of the rules of the comment table that fired.
BlastComments(explosionRisk, chemData, concentrationPercent, temperature, pressure) ==
    LET base == IF explosionRisk = "None" THEN <<"no explosion hazard">>
                ELSE IF IsFlammable(chemData, concentrationPercent)
                THEN <<"within flammable range">>
                ELSE IF Lt(concentrationPercent, chemData.lel) THEN <<"below LEL">>
                ELSE IF Gt(concentrationPercent, chemData.uel) THEN <<"above UEL">>
                ELSE << >>
        temp == IF Gt(temperature, 50 * Milli)
                THEN <<"elevated temperature">> ELSE << >>
        pres == IF Gt(pressure, 1200) THEN <<"elevated pressure">> ELSE << >>
    IN  base \o temp \o pres

BlastNotFound ==
    [explosionRisk |-> "None", flammabilityRisk |-> "None",
     potentialOverpressure |-> 0, potentialThermalRadiation |-> 0,
     safeDistance |-> 100 * Milli, comments |-> <<"Chemical data not found">>]

assessBlastPotential(chemical, concentration, temperature, pressure) ==
    IF ~Found(chemical) THEN BlastNotFound
    ELSE LET chemData == Lookup(chemical)
             concentrationPercent ==
                 convertConcentrationUnit(concentration, chemical, "mg/m3", "percent")
             tempFactor == FAdd(Milli, FDiv(FSub(temperature, 20 * Milli), 100 * Milli))
             pressureFactor == pressure
             flammabilityRisk == FlammabilityRisk(chemData, concentrationPercent)
             explosionRisk ==
                 EscalatedExplosionRisk(BaseExplosionRisk(chemData, concentrationPercent),
                                        temperature, pressureFactor)
             potentialOverpressure ==
                 PotentialOverpressure(explosionRisk, tempFactor, pressureFactor, chemData)
         IN  [explosionRisk |-> explosionRisk, flammabilityRisk |-> flammabilityRisk,
              potentialOverpressure |-> potentialOverpressure,
              potentialThermalRadiation |->
                  PotentialThermalRadiation(flammabilityRisk, tempFactor, chemData),
              safeDistance |-> SafeDistance(explosionRisk, potentialOverpressure),
              comments |-> BlastComments(explosionRisk, chemData, concentrationPercent,
                                         temperature, pressure)]

(***************************************************************************)
(* Leak detection: detectLeakage                                           *)
(***************************************************************************)
\* A default parameter value: used when the caller leaves the argument out.
DefaultTo(argument, default) == IF argument = Undefined THEN default ELSE argument

\* max(background * multiplier, 0.01 * (aegl1 || 1 ppm in mg/m3))
DetectionThreshold(chemical, backgroundLevel, thresholdMultiplier) ==
    LET chemData == Lookup(chemical)
    IN  MathMax(FMul(backgroundLevel, thresholdMultiplier),
                FMul(10, convertConcentrationUnit(OrElse(chemData.aegl1, 1 * Milli),
                                                  chemical, "ppm", "mg/m3")))

\* Faulty variant of IsLeaking: the comparison with the threshold is not strict.
IsLeakingInclusive(concentration, detectionThreshold) ==
    Ge(concentration, detectionThreshold)

IsLeaking(concentration, detectionThreshold) == Gt(concentration, detectionThreshold)

\* Faulty variant of Confidence: the tiers are entered above 2, 5 and 10 times
\* the threshold, not from them.
ConfidenceTiersExclusive(isLeaking, exceedsFactor) ==
    IF ~isLeaking THEN 0
    ELSE IF Gt(exceedsFactor, 10 * Milli) THEN 950
    ELSE IF Gt(exceedsFactor, 5 * Milli) THEN 850
    ELSE IF Gt(exceedsFactor, 2 * Milli) THEN 700
    ELSE 500

Confidence(isLeaking, exceedsFactor) ==
    IF ~isLeaking THEN 0
    ELSE IF Ge(exceedsFactor, 10 * Milli) THEN 950
    ELSE IF Ge(exceedsFactor, 5 * Milli) THEN 850
    ELSE IF Ge(exceedsFactor, 2 * Milli) THEN 700
    ELSE 500

\* Faulty variant of SeverityLevel: a leak below every AEGL mark and below twice
\* the threshold keeps the initial level None.
SeverityLevelLowBandNone(chemical, isLeaking, concentration, detectionThreshold) ==
    IF ~isLeaking THEN "None"
    ELSE LET chemData == Lookup(chemical)
             aegl1 == convertConcentrationUnit(OrElse(chemData.aegl1, 0),
                                               chemical, "ppm", "mg/m3")
             aegl2 == convertConcentrationUnit(OrElse(chemData.aegl2, 0),
                                               chemical, "ppm", "mg/m3")
             aegl3 == convertConcentrationUnit(OrElse(chemData.aegl3, 0),
                                               chemical, "ppm", "mg/m3")
         IN  IF Gt(aegl3, 0) /\ Ge(concentration, aegl3) THEN "Extreme"
             ELSE IF Gt(aegl2, 0) /\ Ge(concentration, aegl2) THEN "High"
             ELSE IF Gt(aegl1, 0) /\ Ge(concentration, aegl1) THEN "Moderate"
             ELSE IF Ge(concentration, 2 * detectionThreshold) THEN "Low"
             ELSE "None"

SeverityLevel(chemical, isLeaking, concentration, detectionThreshold) ==
    IF ~isLeaking THEN "None"
    ELSE LET chemData == Lookup(chemical)
             aegl1 == convertConcentrationUnit(OrElse(chemData.aegl1, 0),
                                               chemical, "ppm", "mg/m3")
             aegl2 == convertConcentrationUnit(OrElse(chemData.aegl2, 0),
                                               chemical, "ppm", "mg/m3")
             aegl3 == convertConcentrationUnit(OrElse(chemData.aegl3, 0),
                                               chemical, "ppm", "mg/m3")
         IN  IF Gt(aegl3, 0) /\ Ge(concentration, aegl3) THEN "Extreme"
             ELSE IF Gt(aegl2, 0) /\ Ge(concentration, aegl2) THEN "High"
             ELSE IF Gt(aegl1, 0) /\ Ge(concentration, aegl1) THEN "Moderate"
             ELSE IF Ge(concentration, 2 * detectionThreshold) THEN "Low"
             ELSE "Low"

\* Faulty variant of TimeToAction: the times of High and Moderate are exchanged.
TimeToActionExchanged(isLeaking, severityLevel) ==
    IF ~isLeaking THEN 60 * Milli
    ELSE CASE severityLevel = "Extreme" -> 5 * Milli
           [] severityLevel = "High" -> 30 * Milli
           [] severityLevel = "Moderate" -> 15 * Milli
           [] severityLevel = "Low" -> 60 * Milli
           [] OTHER -> 60 * Milli

TimeToAction(isLeaking, severityLevel) ==
    IF ~isLeaking THEN 60 * Milli
    ELSE CASE severityLevel = "Extreme" -> 5 * Milli
           [] severityLevel = "High" -> 15 * Milli
           [] severityLevel = "Moderate" -> 30 * Milli
           [] severityLevel = "Low" -> 60 * Milli
           [] OTHER -> 60 * Milli

RecommendedActions(chemData, isLeaking, severityLevel) ==
    IF isLeaking
    THEN <<"Verify reading with additional monitoring">>
         \o (IF severityLevel \in {"Extreme", "High"}
             THEN <<"Activate emergency response protocol",
                    "Consider evacuation of affected areas",
                    "Use appropriate PPE for response personnel",
                    "Identify and isolate the source of the leak">>
             ELSE IF severityLevel = "Moderate"
             THEN <<"Increase ventilation in the affected area",
                    "Notify response team and prepare for potential escalation",
                    "Begin source identification procedures">>
             ELSE <<"Continue monitoring at increased frequency",
                    "Prepare response equipment as a precautionary measure">>)
         \o (IF Gt(chemData.lel, 0) /\ Gt(chemData.uel, 0)
             THEN <<"Eliminate all ignition sources in the vicinity">>
             ELSE << >>)
    ELSE <<"Continue routine monitoring",
           "Check monitoring equipment calibration at next maintenance interval">>

LeakNotFound ==
    [isLeaking |-> FALSE, confidence |-> 0, severityLevel |-> "None",
     detectionThreshold |-> 0, exceedsFactor |-> 0, timeToAction |-> 60 * Milli,
     recommendedActions |-> <<"Verify chemical properties in database">>]

detectLeakage(chemical, concentration, backgroundArg, multiplierArg) ==
    IF ~Found(chemical) THEN LeakNotFound
    ELSE LET backgroundLevel == DefaultTo(backgroundArg, 1)
             thresholdMultiplier == DefaultTo(multiplierArg, 5 * Milli)
             detectionThreshold ==
                 DetectionThreshold(chemical, backgroundLevel, thresholdMultiplier)
             isLeaking == IsLeaking(concentration, detectionThreshold)
             exceedsFactor ==
                 IF isLeaking THEN FDiv(concentration, detectionThreshold) ELSE 0
             severityLevel ==
                 SeverityLevel(chemical, isLeaking, concentration, detectionThreshold)
         IN  [isLeaking |-> isLeaking,
              confidence |-> Confidence(isLeaking, exceedsFactor),
              severityLevel |-> severityLevel,
              detectionThreshold |-> detectionThreshold,
              exceedsFactor |-> exceedsFactor,
              timeToAction |-> TimeToAction(isLeaking, severityLevel),
              recommendedActions |->
                  RecommendedActions(Lookup(chemical), isLeaking, severityLevel)]

(***************************************************************************)
(* Detailed results: calculateDetailedDispersion                           *)
(***************************************************************************)
\* coefficients[stabilityClass] || coefficients['D']
SigmaClass(stabilityClass) ==
    IF stabilityClass \in {"A", "B", "C", "D", "E", "F"} THEN stabilityClass ELSE "D"

\* The coefficient a of sigma-y, in thousandths; b is 0.0001 for every class.
SigmaYCoefficientA(stabilityClass) ==
    CASE stabilityClass = "A" -> 220
      [] stabilityClass = "B" -> 160
      [] stabilityClass = "C" -> 110
      [] stabilityClass = "D" -> 80
      [] stabilityClass = "E" -> 60
      [] stabilityClass = "F" -> 40

\* The coefficient c of sigma-z, in thousandths.
SigmaZCoefficientC(stabilityClass) ==
    CASE stabilityClass = "A" -> 200
      [] stabilityClass = "B" -> 120
      [] stabilityClass = "C" -> 80
      [] stabilityClass = "D" -> 60
      [] stabilityClass = "E" -> 30
      [] stabilityClass = "F" -> 16

\* The coefficient d of sigma-z, in ten-thousandths.
SigmaZCoefficientD(stabilityClass) ==
    CASE stabilityClass = "A" -> 0
      [] stabilityClass = "B" -> 0
      [] stabilityClass = "C" -> 2
      [] stabilityClass = "D" -> 3
      [] stabilityClass = "E" -> 4
      [] stabilityClass = "F" -> 5

\* coefficient * distance * Math.pow(1 + perMetre * distance, -0.5), with
\* perMetre in ten-thousandths.
SigmaOf(coefficient, perMetre, distance) ==
    IF IsNaN(distance) THEN NaN
    ELSE FDiv(FMul(coefficient, distance),
              MathSqrt(Milli + (perMetre * distance) \div 10000))

calculateSigmaY(distance, stabilityClass) ==
    SigmaOf(SigmaYCoefficientA(SigmaClass(stabilityClass)), 1, distance)

calculateSigmaZ(distance, stabilityClass) ==
    SigmaOf(SigmaZCoefficientC(SigmaClass(stabilityClass)),
            SigmaZCoefficientD(SigmaClass(stabilityClass)), distance)

\* Math.PI * windSpeed * sigmaY * sigmaZ, in whole units.
PlumeCrossSection(windSpeed, sigmaY, sigmaZ) ==
    IF IsNaN(sigmaY) \/ IsNaN(sigmaZ) THEN NaN
    ELSE MulDiv(FMul(FMul(3142, windSpeed), sigmaY) \div Milli, sigmaZ, Milli)

\* (releaseRate * 1000) / (Math.PI * windSpeed * sigmaY * sigmaZ): the division
\* by zero gives Infinity, and NaN for 0 / 0.
MaxConcentration(releaseRate, windSpeed, sigmaY, sigmaZ) ==
    LET crossSection == PlumeCrossSection(windSpeed, sigmaY, sigmaZ)
    IN  IF IsNaN(crossSection) THEN NaN
        ELSE IF crossSection = 0 THEN Quotient(releaseRate, 0)
        ELSE MulDiv(releaseRate, Milli, crossSection)

(***************************************************************************)
(* Concentration profile: generateConcentrationProfile                     *)
(***************************************************************************)
\* The decay constant k and the power n of a stability class, in thousandths;
\* a class that is no case of the switch gets the neutral pair.
ProfileDecay(stabilityClass) ==
    CASE stabilityClass = "A" -> [k |-> 4000, n |-> 1500]
      [] stabilityClass = "B" -> [k |-> 3500, n |-> 1600]
      [] stabilityClass = "C" -> [k |-> 3000, n |-> 1700]
      [] stabilityClass = "D" -> [k |-> 2500, n |-> 1800]
      [] stabilityClass = "E" -> [k |-> 2000, n |-> 1900]
      [] stabilityClass = "F" -> [k |-> 1500, n |-> 2000]
      [] OTHER -> [k |-> 2500, n |-> 1800]

\* Math.min(Math.max(params.windSpeed, 1), 10) / 5
ProfileWindFactor(windSpeed) ==
    FDiv(MathMin(MathMax(windSpeed, Milli), 10 * Milli), 5 * Milli)

\* k * (0.7 + windFactor * 0.3)
ProfileDecayConstant(k, windSpeed) ==
    FMul(k, FAdd(700, FMul(ProfileWindFactor(windSpeed), 300)))

\* The natural logarithm of 1 / x for 0 < x <= 1: log10(1 / x) * ln 10.
LnOfInverse(x) == MulDiv(MathLog10(FDiv(Milli, x)), 2302585, 10^6)

\* Math.pow(x, n) for 0 <= x <= 1 and n > 0: 0 at 0, exp(n * ln x) above.
MathPow(x, n) ==
    IF IsNaN(x) \/ IsNaN(n) THEN NaN
    ELSE IF x = 0 THEN 0
    ELSE IF x >= Milli THEN Milli
    ELSE MathExp(0 - FMul(n, LnOfInverse(x)))

\* parseFloat(x.toFixed(2)): the nearest hundredth.
ToFixed2(x) == IF IsNaN(x) THEN NaN ELSE ((x + 5) \div 10) * 10

\* parseFloat(x.toFixed(3)): the nearest thousandth, which every number of the
\* model already is.
ToFixed3(x) == x

Intervals == 20

\* The sample i of the profile, i in 0..intervals.
ProfilePoint(i, k, n, maxConc, maxDist) ==
    LET distance == FDiv(FMul(maxDist, i * Milli), Intervals * Milli)
        normalizedDistance ==
            IF IsNaN(distance) \/ IsNaN(maxDist) THEN NaN
            ELSE IF maxDist = 0 THEN NaN
            ELSE FDiv(distance, maxDist)
        decay ==
            IF IsNaN(k) \/ IsNaN(normalizedDistance) THEN NaN
            ELSE MathExp(0 - FMul(k, MathPow(normalizedDistance, n)))
    IN  [distance |-> ToFixed2(distance),
         concentration |-> ToFixed3(FMul(maxConc, decay))]

generateConcentrationProfile(params, maxConc, maxDist) ==
    LET decay == ProfileDecay(params.stabilityClass)
        k == ProfileDecayConstant(decay.k, params.windSpeed)
    IN  [i \in 1..(Intervals + 1) |-> ProfilePoint(i - 1, k, decay.n, maxConc, maxDist)]

(***************************************************************************)
(* Detection statistics: calculateLeakDetection                            *)
(***************************************************************************)
\* monitoringMode || 'continuous'
MonitoringMode(params) ==
    IF params.monitoringMode = "" THEN "continuous" ELSE params.monitoringMode

\* 0.75 * min(1, sensorCount / 10) * min(1, releaseRate / 50) * (1.0 or 0.7),
\* brought into [0, 1].
DetectionProbability(params) ==
    LET sensorCount == OrElse(params.sensorCount, 5 * Milli)
        bySensors == FMul(750, MathMin(Milli, FDiv(sensorCount, 10 * Milli)))
        byRelease == FMul(bySensors, MathMin(Milli, FDiv(params.releaseRate, 50 * Milli)))
        byMode == FMul(byRelease, IF MonitoringMode(params) = "continuous" THEN Milli ELSE 700)
    IN  MathMax(0, MathMin(Milli, byMode))

\* Math.max(1, 10 * (sensorThreshold / Math.max(0.1, releaseRate)) * (1 or 5))
TimeToDetection(params) ==
    LET sensorThreshold == OrElse(params.sensorThreshold, 500)
        perRate == FDiv(sensorThreshold, MathMax(100, params.releaseRate))
    IN  MathMax(Milli, FMul(FMul(10 * Milli, perRate),
                            IF MonitoringMode(params) = "continuous" THEN Milli
                            ELSE 5 * Milli))

\* Math.sqrt of a number above the range of MathSqrt, from a hundredth of it.
SqrtLarge(x) ==
    IF IsNaN(x) THEN NaN
    ELSE IF x > 2000 * Milli THEN 10 * MathSqrt(x \div 100)
    ELSE MathSqrt(x)

\* Faulty variant of EvacuationTime: the 20 minutes of preparation are left out.
EvacuationTimeWithoutBase(zoneData) ==
    LET yellow == zoneData.yellow.distance
        totalArea == FMul(3142, FMul(yellow, yellow))
        totalPopulation == IF IsNaN(totalArea) THEN NaN ELSE totalArea * 500
    IN  SqrtLarge(FDiv(totalPopulation, 100 * Milli))

\* 20 + Math.sqrt(totalPopulation / 100), with 500 people per square kilometre
\* of the circle of the yellow distance.
EvacuationTime(zoneData) ==
    LET yellow == zoneData.yellow.distance
        totalArea == FMul(3142, FMul(yellow, yellow))
        totalPopulation == IF IsNaN(totalArea) THEN NaN ELSE totalArea * 500
    IN  FAdd(20 * Milli, SqrtLarge(FDiv(totalPopulation, 100 * Milli)))

\* The detection statistics; the sensor coordinates are left out.
calculateLeakDetection(params, zoneData) ==
    LET sensorThreshold == OrElse(params.sensorThreshold, 500)
    IN  [detectionProbability |-> DetectionProbability(params),
         timeToDetection |-> TimeToDetection(params),
         detectionThreshold |-> sensorThreshold,
         falseAlarmRate |-> FDiv(2 * Milli, FMul(sensorThreshold, 4 * Milli)),
         evacuationTime |-> EvacuationTime(zoneData)]

\* The zones, the released mass, the dispersion coefficients at the yellow
\* distance, the maximum concentration, the lethal distance, the concentration
\* profile and the detection statistics of the detailed results; the areas and
\* the populations of the zones are left out.
calculateDetailedDispersion(params, random) ==
    LET zoneData == calculateDispersion(params, random)
        simulationTime == OrElse(params.leakDuration, 60 * Milli)
        distance == FMul(zoneData.yellow.distance, 1000 * Milli)
        sigmaY == calculateSigmaY(distance, params.stabilityClass)
        sigmaZ == calculateSigmaZ(distance, params.stabilityClass)
        detectionResults == calculateLeakDetection(params, zoneData)
    IN  [zones |-> zoneData,
         massReleased |-> FMul(params.releaseRate, simulationTime),
         evaporationRate |-> FDiv(params.releaseRate, 60 * Milli),
         dispersionCoefficients |-> [sigmaY |-> sigmaY, sigmaZ |-> sigmaZ],
         maximumConcentration |->
             MaxConcentration(params.releaseRate, params.windSpeed, sigmaY, sigmaZ),
         lethalDistance |-> FMul(zoneData.red.distance, 700),
         concentrationProfile |->
             generateConcentrationProfile(params, zoneData.red.concentration,
                                          FMul(zoneData.yellow.distance, 1200)),
         detectionProbability |-> detectionResults.detectionProbability,
         timeToDetection |-> detectionResults.timeToDetection,
         detectionThreshold |-> detectionResults.detectionThreshold,
         falseAlarmRate |-> detectionResults.falseAlarmRate,
         evacuationTime |-> detectionResults.evacuationTime]

(***************************************************************************)
(* Protective actions: evaluateProtectiveActions                           *)
(***************************************************************************)
ShelterTypes == {"indoor", "vehicle", "fullEvacuation"}

\* Faulty variant of EvacuationTier: a tier is entered as soon as the time left
\* reaches its mark.
EvacuationTierInclusive(totalAvailableTime, evacuationTime) ==
    IF Ge(totalAvailableTime, evacuationTime)
    THEN [effectivenessPercent |-> 95 * Milli, casualtyReductionPercent |-> 98 * Milli,
          recommendation |-> "Full evacuation recommended - sufficient time available"]
    ELSE IF Ge(totalAvailableTime, FMul(evacuationTime, 700))
    THEN [effectivenessPercent |-> 75 * Milli, casualtyReductionPercent |-> 85 * Milli,
          recommendation |-> "Partial evacuation possible - prioritize vulnerable populations"]
    ELSE [effectivenessPercent |-> 30 * Milli, casualtyReductionPercent |-> 40 * Milli,
          recommendation |-> "Insufficient time for evacuation - shelter in place"]

\* The tier of a full evacuation from the time left of the 10 minutes before
\* significant exposure.
EvacuationTier(totalAvailableTime, evacuationTime) ==
    IF Gt(totalAvailableTime, evacuationTime)
    THEN [effectivenessPercent |-> 95 * Milli, casualtyReductionPercent |-> 98 * Milli,
          recommendation |-> "Full evacuation recommended - sufficient time available"]
    ELSE IF Gt(totalAvailableTime, FMul(evacuationTime, 700))
    THEN [effectivenessPercent |-> 75 * Milli, casualtyReductionPercent |-> 85 * Milli,
          recommendation |-> "Partial evacuation possible - prioritize vulnerable populations"]
    ELSE [effectivenessPercent |-> 30 * Milli, casualtyReductionPercent |-> 40 * Milli,
          recommendation |-> "Insufficient time for evacuation - shelter in place"]

\* The share of the outdoor concentration that enters a building.
BuildingProtectionFactor(chemicalType) ==
    IF ~Found(chemicalType) THEN 500
    ELSE IF Lookup(chemicalType).boilingPoint < 20 * Milli THEN 700
    ELSE IF Lookup(chemicalType).boilingPoint > 100 * Milli THEN 300
    ELSE 500

IndoorShelter(chemicalType) ==
    LET effectivenessPercent == FMul(Milli - BuildingProtectionFactor(chemicalType), 100 * Milli)
    IN  [effectivenessPercent |-> effectivenessPercent,
         casualtyReductionPercent |-> effectivenessPercent + 10 * Milli,
         recommendation |-> "Shelter in place - close all windows and doors, turn off ventilation"]

VehicleShelter ==
    [effectivenessPercent |-> 20 * Milli, casualtyReductionPercent |-> 30 * Milli,
     recommendation |-> "Vehicle provides minimal protection - evacuate if possible"]

\* evaluateProtectiveActions(params, evacuationTime, shelterType), with the
\* value its calculateDetailedDispersion call draws from Math.random(); of the
\* detailed results it reads timeToDetection only, which they copy from
\* calculateLeakDetection(params, zoneData).
evaluateProtectiveActions(params, evacuationTime, shelterType, random) ==
    LET timeToDetection ==
            calculateLeakDetection(params, calculateDispersion(params, random)).timeToDetection
        totalAvailableTime == FSub(10 * Milli, timeToDetection)
    IN  IF shelterType = "fullEvacuation"
        THEN EvacuationTier(totalAvailableTime, evacuationTime)
        ELSE IF shelterType = "indoor" THEN IndoorShelter(params.chemicalType)
        ELSE VehicleShelter

(***************************************************************************)
(* Sensor placement: generateSensorRecommendations                         *)
(***************************************************************************)
\* Math.ceil(sensorCount * tenths / 10) for a whole sensorCount.
CeilOfTenths(sensorCount, tenths) == (sensorCount * tenths + 9) \div 10

\* Math.min(3, Math.ceil(sensorCount * 0.4))
DownwindCount(sensorCount) ==
    IF CeilOfTenths(sensorCount, 4) < 3 THEN CeilOfTenths(sensorCount, 4) ELSE 3

\* Math.min(3, Math.ceil(sensorCount * 0.3))
CrosswindCount(sensorCount) ==
    IF CeilOfTenths(sensorCount, 3) < 3 THEN CeilOfTenths(sensorCount, 3) ELSE 3

\* Math.max(1, sensorCount - downwindCount - crosswindCount - 1)
PerimeterCount(sensorCount) ==
    LET rest == sensorCount - DownwindCount(sensorCount) - CrosswindCount(sensorCount) - 1
    IN  IF rest > 1 THEN rest ELSE 1

\* The placements in the order they are pushed. Each placement keeps its type,
\* its priority and its distance from the source in km; the bearing, which
\* turns the distance into lat/lng, is left out.
generateSensorRecommendations(zoneData, sensorCountArg) ==
    LET sensorCount == DefaultTo(sensorCountArg, 8)
        downwindCount == DownwindCount(sensorCount)
        crosswindCount == CrosswindCount(sensorCount)
        perimeterCount == PerimeterCount(sensorCount)
    IN  <<[type |-> "fixed", priority |-> 1, distance |-> 0]>>
        \o [i \in 1..downwindCount |->
               [type |-> "fixed", priority |-> 2,
                distance |-> MulDiv(zoneData.orange.distance, i, downwindCount)]]
        \o [i \in 1..crosswindCount |->
               [type |-> IF i = 1 THEN "fixed" ELSE "mobile", priority |-> 3,
                distance |-> MulDiv(FMul(zoneData.yellow.distance, 500), i,
                                    crosswindCount)]]
        \o [i \in 1..perimeterCount |->
               [type |-> "mobile", priority |-> 4,
                distance |-> FMul(zoneData.yellow.distance, 900)]]

(***************************************************************************)
(* Dispersion module: convertConcentration                                 *)
(***************************************************************************)
\* The converter of the dispersion module: equal units return the value, and
\* the remaining branch returns the value as well.
convertConcentration(value, fromUnit, toUnit) ==
    IF fromUnit = toUnit THEN value
    ELSE value

(***************************************************************************)
(* Weather: calculateStabilityClass and calculateWeatherImpact             *)
(***************************************************************************)
\* windSpeed > 20 ? windSpeed / 3.6 : windSpeed
WindSpeedMS(windSpeed) ==
    IF Gt(windSpeed, 20 * Milli) THEN MulDiv(windSpeed, 10, 36) ELSE windSpeed

\* isDay is the number 0 or 1 of the weather API; cloudCover is in percent.
calculateStabilityClass(windSpeed, cloudCover, isDay) ==
    LET windSpeedMS == WindSpeedMS(windSpeed)
    IN  IF isDay = 1
        THEN IF Lt(cloudCover, 40 * Milli)
             THEN IF Lt(windSpeedMS, 2 * Milli) THEN "A"
                  ELSE IF Lt(windSpeedMS, 3 * Milli) THEN "A-B"
                  ELSE IF Lt(windSpeedMS, 5 * Milli) THEN "B"
                  ELSE IF Lt(windSpeedMS, 6 * Milli) THEN "C"
                  ELSE "D"
             ELSE IF Lt(cloudCover, 70 * Milli)
             THEN IF Lt(windSpeedMS, 2 * Milli) THEN "B"
                  ELSE IF Lt(windSpeedMS, 3 * Milli) THEN "B-C"
                  ELSE IF Lt(windSpeedMS, 5 * Milli) THEN "C"
                  ELSE IF Lt(windSpeedMS, 6 * Milli) THEN "C-D"
                  ELSE "D"
             ELSE IF Lt(windSpeedMS, 2 * Milli) THEN "C"
                  ELSE "D"
        ELSE IF Ge(cloudCover, 50 * Milli)
             THEN IF Lt(windSpeedMS, 2500) THEN "E" ELSE "D"
             ELSE IF Lt(windSpeedMS, 2500) THEN "F"
                  ELSE IF Lt(windSpeedMS, 4 * Milli) THEN "E"
                  ELSE "D"

\* The result for an observation with missing data.
NeutralWeatherImpact ==
    [windFactor |-> Milli, stabilityClass |-> "D", dispersionMultiplier |-> Milli]

\* !weatherData.windSpeed || cloudCover === undefined || isDay === undefined
WeatherDataMissing(weatherData) ==
    \/ ~Truthy(weatherData.windSpeed)
    \/ weatherData.cloudCover = Undefined
    \/ weatherData.isDay = Undefined

ImpactWindFactor(windSpeed) ==
    IF Lt(windSpeed, 5 * Milli) THEN 800
    ELSE IF Gt(windSpeed, 15 * Milli) THEN 1300
    ELSE Milli + FMul(windSpeed - 5 * Milli, 30)

\* switch (stabilityClass.charAt(0))
ImpactStabilityFactor(stabilityClass) ==
    CASE stabilityClass \in {"A", "A-B"} -> 1300
      [] stabilityClass \in {"B", "B-C"} -> 1200
      [] stabilityClass \in {"C", "C-D"} -> 1100
      [] stabilityClass = "D" -> 1000
      [] stabilityClass = "E" -> 800
      [] stabilityClass = "F" -> 600
      [] OTHER -> 1000

PrecipFactor(precipitation) ==
    IF Truthy(precipitation) /\ Gt(precipitation, 0)
    THEN MathMax(700, Milli - FMul(precipitation, 100))
    ELSE Milli

calculateWeatherImpact(weatherData) ==
    IF WeatherDataMissing(weatherData) THEN NeutralWeatherImpact
    ELSE LET stabilityClass == calculateStabilityClass(weatherData.windSpeed,
                                   weatherData.cloudCover, weatherData.isDay)
             windFactor == ImpactWindFactor(weatherData.windSpeed)
             stabilityFactor == ImpactStabilityFactor(stabilityClass)
             precipFactor == PrecipFactor(weatherData.precipitation)
         IN  [windFactor |-> windFactor,
              stabilityClass |-> stabilityClass,
              dispersionMultiplier |->
                  FMul(FMul(windFactor, stabilityFactor), precipFactor)]

(***************************************************************************)
(* The scenarios the zone computation is invoked with                      *)
(***************************************************************************)
MaxRateStep == 2

\* Release rates in kg/min: 0, 25, 100, ...
ReleaseRates == {25 * i * i * Milli : i \in 0..MaxRateStep}

JitterSteps == 2

\* Values of Math.random(), which lie in [0, 1).
RandomValues == {(k * 999) \div JitterSteps : k \in 0..JitterSteps}

ZoneTemperatures == {0 - 90 * Milli, 20 * Milli, 45 * Milli}

StabilityClassInputs == {"A", "B", "C", "D", "E", "F", "G"}

\* Wind speed (m/s) with the optional weather-impact override.
WindSetups ==
    {[windSpeed |-> 0, weatherImpact |-> NoWeatherImpact],
     [windSpeed |-> 9 * Milli, weatherImpact |-> NoWeatherImpact],
     [windSpeed |-> 4 * Milli,
      weatherImpact |-> [present |-> TRUE, windFactor |-> 1300,
                         stabilityClass |-> "F", dispersionMultiplier |-> 1500]],
     [windSpeed |-> 4 * Milli,
      weatherImpact |-> [present |-> TRUE, windFactor |-> 0,
                         stabilityClass |-> "", dispersionMultiplier |-> 0]]}

\* Humidity (%), pressure (hPa), terrain and containment.
Surroundings ==
    {[relativeHumidity |-> Undefined, humidity |-> Undefined,
      ambientPressure |-> Undefined, terrain |-> "rural", isIndoor |-> FALSE],
     [relativeHumidity |-> 50 * Milli, humidity |-> Undefined,
      ambientPressure |-> 1013250, terrain |-> "urban", isIndoor |-> TRUE],
     [relativeHumidity |-> 0, humidity |-> 80 * Milli,
      ambientPressure |-> 900 * Milli, terrain |-> "water", isIndoor |-> FALSE],
     [relativeHumidity |-> 100 * Milli, humidity |-> 20 * Milli,
      ambientPressure |-> 0, terrain |-> "forest", isIndoor |-> FALSE]}

ModelParameters(chemicalType, releaseRate, temperature, stabilityClass, wind, around) ==
    [chemicalType |-> chemicalType, releaseRate |-> releaseRate,
     temperature |-> temperature, stabilityClass |-> stabilityClass,
     windSpeed |-> wind.windSpeed, weatherImpact |-> wind.weatherImpact,
     relativeHumidity |-> around.relativeHumidity, humidity |-> around.humidity,
     ambientPressure |-> around.ambientPressure, terrain |-> around.terrain,
     isIndoor |-> around.isIndoor]

DefaultSurroundings ==
    CHOOSE a \in Surroundings : a.terrain = "rural"

DefaultWind ==
    CHOOSE w \in WindSetups : ~w.weatherImpact.present /\ w.windSpeed > 0

\* Every chemical, rate, temperature, class and wind in open country, and every
\* surrounding for one stored and one unknown chemical.
Scenarios ==
    {ModelParameters(c, r, t, s, w, DefaultSurroundings) :
        c \in ChemicalIds, r \in ReleaseRates, t \in ZoneTemperatures,
        s \in StabilityClassInputs, w \in WindSetups}
    \cup
    {ModelParameters(c, r, t, "D", DefaultWind, a) :
        c \in {"ammonia", "acetone"}, r \in ReleaseRates, t \in ZoneTemperatures,
        a \in Surroundings}

(***************************************************************************)
(* The arguments the other entry points are invoked with                   *)
(***************************************************************************)
MaxMassRateStep == 3

\* Release rates in kg/min: 0, 0.1, 0.8, 2.7, ...
MassReleaseRates == {(i * i * i * Milli) \div 10 : i \in 0..MaxMassRateStep}

\* Durations in minutes.
Durations == {0, 1 * Milli, 10 * Milli, 60 * Milli, 240 * Milli}

\* Temperatures below and above the boiling points of the stored chemicals.
MassTemperatures == {0 - 40 * Milli, 5 * Milli, 20 * Milli, 30 * Milli, 70 * Milli}

Containers ==
    {[containerVolume |-> Undefined, initialMass |-> Undefined],
     [containerVolume |-> 5 * Milli, initialMass |-> 100 * Milli]}

MaxConcStep == 11

\* Concentrations in mg/m3: 0, 250, 500, 1000, ... doubling.
BlastConcentrations == {0} \cup {250 * (2^i) * Milli : i \in 0..MaxConcStep}

BlastTemperatures == {0 - 100 * Milli, 20 * Milli, 60 * Milli, 120 * Milli}

\* Pressures in atm.
BlastPressures == {0, 1000, 1500, 2500}

\* Background level and threshold multiplier; Undefined leaves the default.
DetectorSettings ==
    {[background |-> Undefined, multiplier |-> Undefined],
     [background |-> 500, multiplier |-> 5 * Milli],
     [background |-> 1, multiplier |-> 0]}

MaxThresholdMultiple == 10

\* Measured concentrations: the multiples of the detection threshold, the values
\* next to it and to its double, and the three AEGL marks.
MeasuredLevels(chemical, setting) ==
    IF ~Found(chemical) THEN {0, 1, 14, 1000 * Milli}
    ELSE LET threshold == DetectionThreshold(chemical,
                              DefaultTo(setting.background, 1),
                              DefaultTo(setting.multiplier, 5 * Milli))
             chemData == Lookup(chemical)
         IN  {k * threshold : k \in 0..MaxThresholdMultiple}
             \cup {threshold + 1, 2 * threshold - 1}
             \cup {convertConcentrationUnit(a, chemical, "ppm", "mg/m3") :
                      a \in {chemData.aegl1, chemData.aegl2, chemData.aegl3}}

\* Values to convert: 0, 0.5, 7 and 20 of the source unit.
ConversionValues == {0, 500, 7 * Milli, 20 * Milli}

MaxWindStep == 12

\* Wind speeds: 0 to 6 in steps of 0.5, and 10, 15, 16, 20, 21 and 30.
WindSpeeds ==
    {500 * k : k \in 0..MaxWindStep}
        \cup {10 * Milli, 15 * Milli, 16 * Milli, 20 * Milli, 21 * Milli, 30 * Milli}

\* Cloud cover in percent, on both sides of the marks 40, 50 and 70.
CloudCovers == {c * Milli : c \in {0, 39, 40, 49, 50, 69, 70, 100}}

IsDayValues == {0, 1}

\* Weather observations; Undefined is a value that was not supplied.
WeatherObservations ==
    [windSpeed : WindSpeeds \cup {Undefined},
     cloudCover : CloudCovers \cup {Undefined},
     isDay : IsDayValues \cup {Undefined},
     precipitation : {Undefined, 0, Milli, 5 * Milli}]

\* The monitoring of a scenario: the sensor threshold (mg/m3), the number of
\* sensors and the monitoring mode; Undefined and "" are fields not supplied.
DefaultMonitoring ==
    [sensorThreshold |-> Undefined, sensorCount |-> Undefined, monitoringMode |-> ""]

BatchMonitoring ==
    [sensorThreshold |-> 2 * Milli, sensorCount |-> 20 * Milli, monitoringMode |-> "batch"]

CoarseMonitoring ==
    [sensorThreshold |-> 7500, sensorCount |-> 8 * Milli, monitoringMode |-> "continuous"]

\* The scenarios of the detailed results: three chemicals, with and without a
\* leak duration, with the default and with batch monitoring.
DetailScenarios ==
    {[leakDuration |-> d] @@ m @@ p :
        p \in {s \in Scenarios : s.chemicalType \in {"chlorine", "benzene", "acetone"}},
        d \in {Undefined, 30 * Milli},
        m \in {DefaultMonitoring, BatchMonitoring}}

\* The scenarios of the protective actions: a gas, a liquid and an unknown
\* chemical at every release rate and every monitoring.
ProtectionScenarios ==
    {[leakDuration |-> Undefined] @@ m @@
     ModelParameters(c, r, 20 * Milli, "D", DefaultWind, DefaultSurroundings) :
        c \in {"chlorine", "benzene", "acetone"}, r \in ReleaseRates,
        m \in {DefaultMonitoring, BatchMonitoring, CoarseMonitoring}}

MaxEvacStep == 15

\* Evacuation times in minutes: 0 to 15, 8.5 and 12.5, 20, 40, and two negative
\* values.
EvacuationTimes ==
    {Milli * k : k \in 0..MaxEvacStep}
        \cup {8500, 12500, 20 * Milli, 40 * Milli, 0 - 50 * Milli, 0 - 1000 * Milli}

MaxSensorCount == 10

\* Requested sensor counts; Undefined leaves the default of 8.
SensorCounts == (1..MaxSensorCount) \cup {Undefined}

\* The scenarios whose zones the sensors are placed in.
SensorScenarios ==
    {ModelParameters("chlorine", r, 20 * Milli, s, DefaultWind, DefaultSurroundings) :
        r \in ReleaseRates, s \in {"A", "D", "F"}}

\* The scenarios that receive the weather impact of an observation: chlorine
\* and benzene at 100 kg/min and 20 degrees, classes D and A of their own.
ImpactScenarios ==
    {ModelParameters(c, 100 * Milli, 20 * Milli, s, DefaultWind, DefaultSurroundings) :
        c \in {"chlorine", "benzene"}, s \in {"D", "A"}}

\* params.weatherImpact = the result of calculateWeatherImpact
WithWeatherImpact(params, impact) ==
    [params EXCEPT !.weatherImpact =
        [present |-> TRUE, windFactor |-> impact.windFactor,
         stabilityClass |-> impact.stabilityClass,
         dispersionMultiplier |-> impact.dispersionMultiplier]]

Idle == [op |-> "idle"]

(***************************************************************************)
(* Actions: one invocation of an entry point each                          *)
(***************************************************************************)
\* computeZones(scenario): the jitter is drawn from the ambient generator.
ComputeZones ==
    /\ call = Idle
    /\ \E params \in Scenarios, random \in RandomValues :
          /\ call' = [op |-> "computeZones", params |-> params]
          /\ result' = [op |-> "computeZones",
                        zones |-> calculateDispersion(params, random)]
    /\ UNCHANGED prev

\* A second computeZones call with the scenario of the first.
RecomputeZones ==
    /\ call.op = "computeZones"
    /\ prev = Idle
    /\ \E random \in RandomValues :
          result' = [op |-> "computeZones",
                     zones |-> calculateDispersion(call.params, random)]
    /\ prev' = [op |-> "computeZones", call |-> call, result |-> result]
    /\ UNCHANGED call

\* computeMassBalance(chemical, rate, duration, temp, pressure, containerVolume?,
\* initialMass?)
ComputeMassBalance ==
    /\ call = Idle
    /\ \E chemical \in ChemicalIds, releaseRate \in MassReleaseRates,
          duration \in Durations, temperature \in MassTemperatures,
          container \in Containers :
          /\ call' = [op |-> "computeMassBalance", chemical |-> chemical,
                      releaseRate |-> releaseRate, duration |-> duration,
                      temperature |-> temperature, pressure |-> Milli,
                      containerVolume |-> container.containerVolume,
                      initialMass |-> container.initialMass]
          /\ result' = [op |-> "computeMassBalance",
                        mass |-> calculateMassBalance(chemical, releaseRate, duration,
                                     temperature, Milli, container.containerVolume,
                                     container.initialMass)]
    /\ UNCHANGED prev

\* assessBlast(chemical, concentration, temp, pressure)
AssessBlast ==
    /\ call = Idle
    /\ \E chemical \in ChemicalIds, concentration \in BlastConcentrations,
          temperature \in BlastTemperatures, pressure \in BlastPressures :
          /\ call' = [op |-> "assessBlast", chemical |-> chemical,
                      concentration |-> concentration, temperature |-> temperature,
                      pressure |-> pressure]
          /\ result' = [op |-> "assessBlast",
                        blast |-> assessBlastPotential(chemical, concentration,
                                                       temperature, pressure)]
    /\ UNCHANGED prev

\* A second assessBlast call: the same chemical, temperature and pressure at a
\* higher concentration.
AssessBlastHigher ==
    /\ call.op = "assessBlast"
    /\ prev = Idle
    /\ \E concentration \in BlastConcentrations :
          /\ concentration > call.concentration
          /\ call' = [call EXCEPT !.concentration = concentration]
          /\ result' = [op |-> "assessBlast",
                        blast |-> assessBlastPotential(call.chemical, concentration,
                                      call.temperature, call.pressure)]
    /\ prev' = [op |-> "assessBlast", call |-> call, result |-> result]

\* detectLeak(chemical, measured, background?, multiplier?)
DetectLeak ==
    /\ call = Idle
    /\ \E chemical \in ChemicalIds, setting \in DetectorSettings :
       \E measured \in MeasuredLevels(chemical, setting) :
          /\ call' = [op |-> "detectLeak", chemical |-> chemical,
                      measured |-> measured, background |-> setting.background,
                      multiplier |-> setting.multiplier]
          /\ result' = [op |-> "detectLeak",
                        leak |-> detectLeakage(chemical, measured, setting.background,
                                               setting.multiplier)]
    /\ UNCHANGED prev

\* A second detectLeak call: the same chemical and detector setting, another
\* measured concentration.
DetectLeakAgain ==
    /\ call.op = "detectLeak"
    /\ prev = Idle
    /\ \E measured \in MeasuredLevels(call.chemical,
                           [background |-> call.background,
                            multiplier |-> call.multiplier]) :
          /\ measured # call.measured
          /\ call' = [call EXCEPT !.measured = measured]
          /\ result' = [op |-> "detectLeak",
                        leak |-> detectLeakage(call.chemical, measured,
                                               call.background, call.multiplier)]
    /\ prev' = [op |-> "detectLeak", call |-> call, result |-> result]

\* convertConcentration(value, chemical, fromUnit, toUnit)
ConvertConcentration ==
    /\ call = Idle
    /\ \E value \in ConversionValues, chemical \in ChemicalIds,
          fromUnit \in ConcentrationUnits, toUnit \in ConcentrationUnits :
          /\ call' = [op |-> "convertConcentration", value |-> value,
                      chemical |-> chemical, fromUnit |-> fromUnit, toUnit |-> toUnit]
          /\ result' = [op |-> "convertConcentration",
                        value |-> convertConcentrationUnit(value, chemical,
                                                           fromUnit, toUnit)]
    /\ UNCHANGED prev

\* calculateStabilityClass(windSpeed, cloudCover, isDay)
ClassifyStability ==
    /\ call = Idle
    /\ \E windSpeed \in WindSpeeds, cloudCover \in CloudCovers, isDay \in IsDayValues :
          /\ call' = [op |-> "calculateStabilityClass", windSpeed |-> windSpeed,
                      cloudCover |-> cloudCover, isDay |-> isDay]
          /\ result' = [op |-> "calculateStabilityClass",
                        stabilityClass |->
                            calculateStabilityClass(windSpeed, cloudCover, isDay)]
    /\ UNCHANGED prev

\* calculateWeatherImpact(weatherData)
ComputeWeatherImpact ==
    /\ call = Idle
    /\ \E weatherData \in WeatherObservations :
          /\ call' = [op |-> "calculateWeatherImpact", weatherData |-> weatherData]
          /\ result' = [op |-> "calculateWeatherImpact",
                        impact |-> calculateWeatherImpact(weatherData)]
    /\ UNCHANGED prev

\* computeDetailedDispersion(scenario)
ComputeDetailedDispersion ==
    /\ call = Idle
    /\ \E params \in DetailScenarios, random \in RandomValues :
          /\ call' = [op |-> "computeDetailedDispersion", params |-> params]
          /\ result' = [op |-> "computeDetailedDispersion",
                        detail |-> calculateDetailedDispersion(params, random)]
    /\ UNCHANGED prev

\* evaluateProtectiveAction(scenario, evacuationTime, kind) with the
\* evacuationTime and the scenario of the computeDetailedDispersion call before
\* it, for a full evacuation.
EvaluateReportedEvacuation ==
    /\ call.op = "computeDetailedDispersion"
    /\ prev = Idle
    /\ \E random \in RandomValues :
          /\ call' = [op |-> "evaluateProtectiveAction", params |-> call.params,
                      evacuationTime |-> result.detail.evacuationTime,
                      shelterType |-> "fullEvacuation"]
          /\ result' = [op |-> "evaluateProtectiveAction",
                        action |-> evaluateProtectiveActions(call.params,
                                       result.detail.evacuationTime,
                                       "fullEvacuation", random)]
    /\ prev' = [op |-> "computeDetailedDispersion", call |-> call, result |-> result]

\* evaluateProtectiveAction(scenario, evacuationTime, kind)
EvaluateProtectiveAction ==
    /\ call = Idle
    /\ \E params \in ProtectionScenarios, evacuationTime \in EvacuationTimes,
          shelterType \in ShelterTypes, random \in RandomValues :
          /\ call' = [op |-> "evaluateProtectiveAction", params |-> params,
                      evacuationTime |-> evacuationTime, shelterType |-> shelterType]
          /\ result' = [op |-> "evaluateProtectiveAction",
                        action |-> evaluateProtectiveActions(params, evacuationTime,
                                                             shelterType, random)]
    /\ UNCHANGED prev

\* A second evaluateProtectiveAction call: the same scenario and kind with a
\* longer evacuationTime.
EvaluateProtectiveActionLater ==
    /\ call.op = "evaluateProtectiveAction"
    /\ prev = Idle
    /\ \E evacuationTime \in EvacuationTimes, random \in RandomValues :
          /\ evacuationTime > call.evacuationTime
          /\ call' = [call EXCEPT !.evacuationTime = evacuationTime]
          /\ result' = [op |-> "evaluateProtectiveAction",
                        action |-> evaluateProtectiveActions(call.params, evacuationTime,
                                                             call.shelterType, random)]
    /\ prev' = [op |-> "evaluateProtectiveAction", call |-> call, result |-> result]

\* recommendSensors(scenario, zones, count): the zones are those computed for
\* the scenario.
RecommendSensors ==
    /\ call = Idle
    /\ \E params \in SensorScenarios, random \in RandomValues,
          sensorCount \in SensorCounts :
          LET zoneData == calculateDispersion(params, random)
          IN  /\ call' = [op |-> "recommendSensors", params |-> params,
                          zoneData |-> zoneData, sensorCount |-> sensorCount]
              /\ result' = [op |-> "recommendSensors",
                            placements |->
                                generateSensorRecommendations(zoneData, sensorCount)]
    /\ UNCHANGED prev

\* A second convertConcentration call: the value returned by the first is
\* converted back to the unit it came from.
ConvertConcentrationBack ==
    /\ call.op = "convertConcentration"
    /\ prev = Idle
    /\ call' = [call EXCEPT !.value = result.value, !.fromUnit = call.toUnit,
                            !.toUnit = call.fromUnit]
    /\ result' = [op |-> "convertConcentration",
                  value |-> convertConcentrationUnit(result.value, call.chemical,
                                                     call.toUnit, call.fromUnit)]
    /\ prev' = [op |-> "convertConcentration", call |-> call, result |-> result]

\* A second assessBlast call: the same chemical and concentration at a
\* temperature and a pressure that are not lower, one of them higher.
AssessBlastRaised ==
    /\ call.op = "assessBlast"
    /\ prev = Idle
    /\ \E temperature \in BlastTemperatures, pressure \in BlastPressures :
          /\ temperature >= call.temperature
          /\ pressure >= call.pressure
          /\ <<temperature, pressure>> # <<call.temperature, call.pressure>>
          /\ call' = [call EXCEPT !.temperature = temperature, !.pressure = pressure]
          /\ result' = [op |-> "assessBlast",
                        blast |-> assessBlastPotential(call.chemical, call.concentration,
                                                       temperature, pressure)]
    /\ prev' = [op |-> "assessBlast", call |-> call, result |-> result]

\* The same value and units given to convertConcentration(value, fromUnit,
\* toUnit) of the dispersion module, after the chemical utilities converted it.
ConvertByDispersionModule ==
    /\ call.op = "convertConcentration"
    /\ prev = Idle
    /\ call' = [op |-> "dispersionConvert", value |-> call.value,
                fromUnit |-> call.fromUnit, toUnit |-> call.toUnit]
    /\ result' = [op |-> "dispersionConvert",
                  value |-> convertConcentration(call.value, call.fromUnit,
                                                 call.toUnit)]
    /\ prev' = [op |-> "convertConcentration", call |-> call, result |-> result]

\* computeZones(scenario) with the result of the calculateWeatherImpact call
\* before it as the weather-impact override of the scenario.
ComputeZonesWithImpact ==
    /\ call.op = "calculateWeatherImpact"
    /\ prev = Idle
    /\ \E scenario \in ImpactScenarios, random \in RandomValues :
          LET params == WithWeatherImpact(scenario, result.impact)
          IN  /\ call' = [op |-> "computeZones", params |-> params]
              /\ result' = [op |-> "computeZones",
                            zones |-> calculateDispersion(params, random)]
    /\ prev' = [op |-> "calculateWeatherImpact", call |-> call, result |-> result]

Init == call = Idle /\ result = Idle /\ prev = Idle

ZonesNext == ComputeZones \/ RecomputeZones

\* The zone computation alone.
ZonesSpec == Init /\ [][ZonesNext]_vars

\* The mass balance alone.
MassSpec == Init /\ [][ComputeMassBalance]_vars

BlastNext == AssessBlast \/ AssessBlastHigher \/ AssessBlastRaised

\* The blast assessment alone.
BlastSpec == Init /\ [][BlastNext]_vars

LeakNext == DetectLeak \/ DetectLeakAgain

\* The leak detection alone.
LeakSpec == Init /\ [][LeakNext]_vars

DetailNext == ComputeDetailedDispersion \/ EvaluateReportedEvacuation

\* The detailed results alone.
DetailSpec == Init /\ [][DetailNext]_vars

ProtectNext == EvaluateProtectiveAction \/ EvaluateProtectiveActionLater

\* The protective actions alone.
ProtectSpec == Init /\ [][ProtectNext]_vars

\* The sensor placement alone.
SensorSpec == Init /\ [][RecommendSensors]_vars

ConvertNext ==
    \/ ConvertConcentration
    \/ ConvertConcentrationBack
    \/ ConvertByDispersionModule

\* The unit conversion alone.
ConvertSpec == Init /\ [][ConvertNext]_vars

WeatherNext ==
    \/ ClassifyStability
    \/ ComputeWeatherImpact
    \/ ComputeZonesWithImpact

\* The weather classification alone.
WeatherSpec == Init /\ [][WeatherNext]_vars

Next ==
    \/ ComputeZones
    \/ RecomputeZones
    \/ ComputeMassBalance
    \/ AssessBlast
    \/ AssessBlastHigher
    \/ DetectLeak
    \/ DetectLeakAgain
    \/ ConvertConcentration
    \/ ClassifyStability
    \/ ComputeWeatherImpact
    \/ ComputeDetailedDispersion
    \/ RecommendSensors
    \/ ConvertConcentrationBack
    \/ AssessBlastRaised
    \/ ConvertByDispersionModule
    \/ ComputeZonesWithImpact
    \/ EvaluateReportedEvacuation
    \/ EvaluateProtectiveAction
    \/ EvaluateProtectiveActionLater

\* Every entry point.
Spec == Init /\ [][Next]_vars
(***************************************************************************)
(* Zone computation: properties                                            *)
(***************************************************************************)
Zones == result.zones

\* C1: for every stored and every unknown chemical the zone concentrations
\* strictly decrease from red to yellow: red > orange > yellow.
C1_ConcentrationsStrictlyDecrease ==
    result.op = "computeZones" =>
        /\ Gt(Zones.red.concentration, Zones.orange.concentration)
        /\ Gt(Zones.orange.concentration, Zones.yellow.concentration)

\* C2: for every scenario with a non-negative adjusted release rate and every
\* jitter value, red.distance <= orange.distance <= yellow.distance.
C2_DistancesOrdered ==
    (result.op = "computeZones" /\ Ge(AdjustedReleaseRate(call.params), 0)) =>
        /\ Le(Zones.red.distance, Zones.orange.distance)
        /\ Le(Zones.orange.distance, Zones.yellow.distance)

\* A result whose three distances lie strictly inside their ranges.
C2_Witness ==
    /\ result.op = "computeZones"
    /\ Gt(AdjustedReleaseRate(call.params), 0)
    /\ Gt(Zones.red.distance, 500) /\ Lt(Zones.red.distance, Zones.orange.distance)
    /\ Lt(Zones.orange.distance, Zones.yellow.distance)
    /\ Lt(Zones.yellow.distance, 15 * Milli)

ZoneDistancesOf(zones) ==
    <<zones.red.distance, zones.orange.distance, zones.yellow.distance>>

\* C4: computeZones is deterministic: two invocations with the same scenario
\* return the same red, orange and yellow distances.
C4_ZonesDeterministic ==
    (prev.op = "computeZones" /\ prev.call = call) =>
        ZoneDistancesOf(Zones) = ZoneDistancesOf(prev.result.zones)

\* Non-negative release rate, finite temperature and pressure.
InDeclaredDomain(params) ==
    /\ Ge(params.releaseRate, 0)
    /\ ~IsNaN(params.temperature)
    /\ ~IsNaN(params.ambientPressure)

\* C7: for every scenario in the declared domain red.distance is in [0.5, 5],
\* orange.distance in [1, 8] and yellow.distance in [1.5, 15] km, none NaN.
C7_DistancesInRange ==
    (result.op = "computeZones" /\ InDeclaredDomain(call.params)) =>
        /\ Ge(Zones.red.distance, 500) /\ Le(Zones.red.distance, 5 * Milli)
        /\ Ge(Zones.orange.distance, 1000) /\ Le(Zones.orange.distance, 8 * Milli)
        /\ Ge(Zones.yellow.distance, 1500) /\ Le(Zones.yellow.distance, 15 * Milli)

(***************************************************************************)
(* Blast assessment: properties                                            *)
(***************************************************************************)
\* The previous call assessed the same chemical at the same temperature and
\* pressure, at a concentration not above that of the last call.
ConcentrationRaised ==
    /\ prev.op = "assessBlast"
    /\ call.op = "assessBlast"
    /\ prev.call.chemical = call.chemical
    /\ prev.call.temperature = call.temperature
    /\ prev.call.pressure = call.pressure
    /\ prev.call.concentration <= call.concentration

RisksNotLowered ==
    /\ RiskRank(prev.result.blast.flammabilityRisk)
          <= RiskRank(result.blast.flammabilityRisk)
    /\ RiskRank(prev.result.blast.explosionRisk)
          <= RiskRank(result.blast.explosionRisk)

AtMostUEL ==
    Found(call.chemical) =>
        Le(convertConcentrationUnit(call.concentration, call.chemical,
                                    "mg/m3", "percent"),
           Lookup(call.chemical).uel)

Mass == result.mass

MassBalanceOfKnown ==
    /\ result.op = "computeMassBalance"
    /\ Found(call.chemical)
    /\ call.releaseRate >= 0 /\ call.duration >= 0

\* C5: for every known chemical, vaporGenerated + poolFormation equals
\* totalReleased (to the last digit carried, a thousandth of a kilogram) and
\* airborneRelease equals vaporGenerated + poolEvaporation, gas or liquid.
C5_MassConserved ==
    MassBalanceOfKnown =>
        /\ Abs(Mass.vaporGenerated + Mass.poolFormation - Mass.totalReleased) <= 1
        /\ Mass.airborneRelease = Mass.vaporGenerated + Mass.poolEvaporation

\* A liquid release that splits into vapor and a pool.
C5_Witness ==
    /\ MassBalanceOfKnown
    /\ ~IsGasAtAmbient(Lookup(call.chemical), call.temperature)
    /\ Mass.vaporGenerated > 10 * Milli
    /\ Mass.poolFormation > 10 * Milli

\* C6: for every known chemical poolEvaporation <= poolFormation, so the mass
\* remaining in the pool is not negative and airborneRelease <= totalReleased.
C6_PoolEvaporationBounded ==
    MassBalanceOfKnown =>
        /\ Mass.poolEvaporation <= Mass.poolFormation
        /\ Mass.massBalance["Remaining in pool"] >= 0
        /\ Mass.airborneRelease <= Mass.totalReleased

\* A pool that evaporates completely within the duration: the cap applies.
C6_Witness ==
    /\ MassBalanceOfKnown
    /\ Mass.poolFormation > 0
    /\ Mass.poolEvaporation = Mass.poolFormation
    /\ FMul(Mass.poolEvaporationRate, call.duration) > Mass.poolFormation

(***************************************************************************)
(* Unknown chemical: properties                                            *)
(***************************************************************************)
UnknownChemicalCall ==
    CASE call.op = "computeZones" -> ~Found(call.params.chemicalType)
      [] call.op \in {"computeMassBalance", "assessBlast", "detectLeak",
                      "convertConcentration"} -> ~Found(call.chemical)
      [] OTHER -> FALSE

\* C8: for an unknown chemical id each operation returns its degraded result:
\* zero masses and rates with timeToEmpty, poolDuration and poolArea undefined;
\* both blast risks None with overpressure and thermal radiation 0; isLeaking
\* false, confidence 0, severity None, timeToAction 60; the converted value
\* unchanged; zone concentrations 5/3/1.
C8_UnknownChemicalDegrades ==
    UnknownChemicalCall =>
        CASE call.op = "computeMassBalance" ->
                /\ \A f \in {"totalReleased", "massReleaseRate", "vaporGenerated",
                             "vaporGenerationRate", "poolFormation", "poolEvaporation",
                             "poolEvaporationRate", "airborneRelease"} : Mass[f] = 0
                /\ Mass.timeToEmpty = Undefined
                /\ Mass.poolDuration = Undefined
                /\ Mass.poolArea = Undefined
          [] call.op = "assessBlast" ->
                /\ result.blast.explosionRisk = "None"
                /\ result.blast.flammabilityRisk = "None"
                /\ result.blast.potentialOverpressure = 0
                /\ result.blast.potentialThermalRadiation = 0
          [] call.op = "detectLeak" ->
                /\ result.leak.isLeaking = FALSE
                /\ result.leak.confidence = 0
                /\ result.leak.severityLevel = "None"
                /\ result.leak.timeToAction = 60 * Milli
          [] call.op = "convertConcentration" -> result.value = call.value
          [] call.op = "computeZones" ->
                /\ Zones.red.concentration = 5 * Milli
                /\ Zones.orange.concentration = 3 * Milli
                /\ Zones.yellow.concentration = 1 * Milli

\* A release of an unknown chemical whose zones were computed.
C8_Witness ==
    /\ call.op = "computeZones" /\ UnknownChemicalCall
    /\ call.params.releaseRate > 0
    /\ Zones.red.concentration = 5 * Milli

(***************************************************************************)
(* Leak detection: properties                                              *)
(***************************************************************************)
Leak == result.leak

\* C9: measured = detectionThreshold gives isLeaking = false; a measured value
\* above the threshold and below twice the threshold gives isLeaking = true
\* with confidence 0.50.
C9_StrictThreshold ==
    (result.op = "detectLeak" /\ Found(call.chemical)) =>
        /\ call.measured = Leak.detectionThreshold => ~Leak.isLeaking
        /\ (call.measured > Leak.detectionThreshold
              /\ call.measured < 2 * Leak.detectionThreshold)
           => (Leak.isLeaking /\ Leak.confidence = 500)

\* The smallest measurable step above the threshold is reported as a leak.
C9_Witness ==
    /\ result.op = "detectLeak" /\ Found(call.chemical)
    /\ call.measured = Leak.detectionThreshold + 1
    /\ Leak.isLeaking /\ Leak.confidence = 500

\* The last result has a higher severity than the one before it.
SeverityRose ==
    /\ prev.op = "detectLeak"
    /\ result.op = "detectLeak"
    /\ RiskRank(prev.result.leak.severityLevel) < RiskRank(Leak.severityLevel)

\* C10 as stated: a result with a higher severity always has a strictly smaller
\* timeToAction than a result with a lower severity.
C10_TimeStrictlyDecreases ==
    SeverityRose => Leak.timeToAction < prev.result.leak.timeToAction

\* C10 amended: a result with a higher severity never has a larger timeToAction,
\* and has a strictly smaller one when the lower severity is not None.
C10_TimeNeverIncreases ==
    SeverityRose =>
        /\ Leak.timeToAction <= prev.result.leak.timeToAction
        /\ prev.result.leak.severityLevel # "None"
              => Leak.timeToAction < prev.result.leak.timeToAction

\* A Low result followed by a Moderate one of the same chemical.
C10_Witness ==
    /\ SeverityRose
    /\ prev.result.leak.severityLevel = "Low"
    /\ Leak.severityLevel = "Moderate"
    /\ Leak.timeToAction < prev.result.leak.timeToAction

\* C11: whenever detectLeak returns isLeaking = false, confidence and
\* exceedsFactor are 0; whenever it returns isLeaking = true, confidence is 0.50,
\* 0.70, 0.85 or 0.95 for a measured value below 2, from 2, from 5 and from 10
\* times the detection threshold.
C11_ConfidenceTiers ==
    result.op = "detectLeak" =>
        /\ ~Leak.isLeaking => (Leak.confidence = 0 /\ Leak.exceedsFactor = 0)
        /\ Leak.isLeaking =>
              Leak.confidence =
                 IF call.measured >= 10 * Leak.detectionThreshold THEN 950
                 ELSE IF call.measured >= 5 * Leak.detectionThreshold THEN 850
                 ELSE IF call.measured >= 2 * Leak.detectionThreshold THEN 700
                 ELSE 500

\* A leak measured at exactly five times the threshold: confidence 0.85.
C11_Witness ==
    /\ result.op = "detectLeak"
    /\ Leak.isLeaking
    /\ call.measured = 5 * Leak.detectionThreshold
    /\ Leak.confidence = 850

(***************************************************************************)
(* Weather: properties                                                     *)
(***************************************************************************)
\* C12: calculateStabilityClass returns exactly one of the six classes A, B, C,
\* D, E, F for every wind speed, cloud cover and isDay value.
C12_ClassIsOneOfSix ==
    result.op = "calculateStabilityClass" =>
        result.stabilityClass \in {"A", "B", "C", "D", "E", "F"}

WeatherData == call.weatherData

\* C17: for every observation in which windSpeed, cloudCover and isDay are all
\* supplied, windFactor is 0.8 when windSpeed < 5, 1.3 when windSpeed > 15 and
\* 1.0 + (windSpeed - 5) * 0.03 otherwise, and the stability class is the one
\* computed from the observation, not the neutral default.
C17_WindFactorTiers ==
    (/\ result.op = "calculateWeatherImpact"
     /\ WeatherData.windSpeed # Undefined
     /\ WeatherData.cloudCover # Undefined
     /\ WeatherData.isDay # Undefined)
    => /\ result.impact.windFactor =
             IF WeatherData.windSpeed < 5 * Milli THEN 800
             ELSE IF WeatherData.windSpeed > 15 * Milli THEN 1300
             ELSE Milli + (30 * (WeatherData.windSpeed - 5 * Milli)) \div Milli
       /\ result.impact.stabilityClass =
             calculateStabilityClass(WeatherData.windSpeed, WeatherData.cloudCover,
                                     WeatherData.isDay)

(***************************************************************************)
(* Detailed results: properties                                            *)
(***************************************************************************)
Detail == result.detail

\* C13: for windSpeed = 0 and any non-negative release rate, maximumConcentration
\* is a finite number, never NaN or infinite.
C13_CalmWindFinite ==
    (/\ result.op = "computeDetailedDispersion"
     /\ call.params.windSpeed = 0
     /\ call.params.releaseRate >= 0)
    => /\ ~IsNaN(Detail.maximumConcentration)
       /\ Detail.maximumConcentration # Infinity
       /\ Detail.maximumConcentration # 0 - Infinity

(***************************************************************************)
(* Blast assessment: explosion risk properties                             *)
(***************************************************************************)
Blast == result.blast

\* The concentration of the last assessBlast call in percent by volume.
ConcentrationPercent ==
    convertConcentrationUnit(call.concentration, call.chemical, "mg/m3", "percent")

AssessedKnown == result.op = "assessBlast" /\ Found(call.chemical)

\* C14: for a chemical with LEL = UEL = 0, flammabilityRisk and explosionRisk are
\* None at every concentration, temperature and pressure, whatever its
\* reactivityHazard or blastPotential.
C14_NonFlammableIsNone ==
    (/\ AssessedKnown
     /\ Lookup(call.chemical).lel = 0
     /\ Lookup(call.chemical).uel = 0)
    => (Blast.flammabilityRisk = "None" /\ Blast.explosionRisk = "None")

\* Chlorine (reactivityHazard 3) above 100 degrees and above twice the ambient
\* pressure: both escalation conditions hold and the risk stays None.
C14_Witness ==
    /\ AssessedKnown
    /\ Lookup(call.chemical).lel = 0
    /\ Lookup(call.chemical).reactivityHazard >= 3 * Milli
    /\ call.concentration > 0
    /\ call.temperature > 100 * Milli
    /\ call.pressure > 2 * Milli
    /\ Blast.explosionRisk = "None"

\* The explosion risk of the last call before escalation.
BaseRisk == BaseExplosionRisk(Lookup(call.chemical), ConcentrationPercent)

\* (T > 50 and pressureRatio > 1.2) or (T > 100 or pressureRatio > 2)
EscalationHolds ==
    \/ (call.temperature > 50 * Milli /\ call.pressure > 1200)
    \/ call.temperature > 100 * Milli
    \/ call.pressure > 2 * Milli

RiskAbove(level) == IF level = "Extreme" THEN "Extreme" ELSE raiseRiskLevel(level)

\* C18: when an escalation condition holds and the base explosionRisk is not
\* None, the returned explosionRisk is exactly one level above the base level,
\* capped at Extreme; when neither condition holds it equals the base level.
C18_EscalatesOneLevel ==
    AssessedKnown =>
        /\ (EscalationHolds /\ BaseRisk # "None")
              => Blast.explosionRisk = RiskAbove(BaseRisk)
        /\ ~EscalationHolds => Blast.explosionRisk = BaseRisk

\* LEL and UEL nonzero, reactivityHazard < 3 and blastPotential < 7.
OrdinaryFlammable(chemData) ==
    /\ chemData.lel # 0 /\ chemData.uel # 0
    /\ chemData.reactivityHazard < 3 * Milli
    /\ chemData.blastPotential < 7 * Milli

\* Low below 10% LEL, Moderate below 50% LEL, High below LEL, Extreme within
\* [LEL, UEL], Moderate above UEL.
RiskBand(chemData, percent) ==
    IF 10 * percent < chemData.lel THEN "Low"
    ELSE IF 2 * percent < chemData.lel THEN "Moderate"
    ELSE IF percent < chemData.lel THEN "High"
    ELSE IF percent <= chemData.uel THEN "Extreme"
    ELSE "Moderate"

\* C19: for an ordinary flammable chemical with T <= 50 and pressure <= 1.2,
\* explosionRisk equals flammabilityRisk at every concentration, and both follow
\* the bands of the concentration relative to LEL and UEL.
C19_OrdinaryExplosionMirrors ==
    (/\ AssessedKnown
     /\ OrdinaryFlammable(Lookup(call.chemical))
     /\ call.temperature <= 50 * Milli
     /\ call.pressure <= 1200)
    => /\ Blast.flammabilityRisk = RiskBand(Lookup(call.chemical), ConcentrationPercent)
       /\ Blast.explosionRisk = Blast.flammabilityRisk

\* reactivityHazard >= 3 or blastPotential >= 7, with nonzero LEL and UEL.
ReactiveFlammable(chemData) ==
    /\ chemData.lel # 0 /\ chemData.uel # 0
    /\ (chemData.reactivityHazard >= 3 * Milli \/ chemData.blastPotential >= 7 * Milli)

\* C20: before escalation the explosionRisk is never above flammabilityRisk; for
\* a chemical with reactivityHazard >= 3 or blastPotential >= 7 and nonzero
\* LEL/UEL it equals flammabilityRisk at every concentration.
C20_ExplosionWithinFlammability ==
    AssessedKnown =>
        /\ RiskRank(BaseRisk) <= RiskRank(Blast.flammabilityRisk)
        /\ ReactiveFlammable(Lookup(call.chemical)) => BaseRisk = Blast.flammabilityRisk
        /\ ~EscalationHolds =>
              RiskRank(Blast.explosionRisk) <= RiskRank(Blast.flammabilityRisk)

\* A reactive chemical above its UEL, outside the flammable band, without
\* escalation: both risks are Moderate.
C20_Witness ==
    /\ AssessedKnown
    /\ ReactiveFlammable(Lookup(call.chemical))
    /\ ConcentrationPercent > Lookup(call.chemical).uel
    /\ ~EscalationHolds
    /\ Blast.flammabilityRisk = "Moderate"
    /\ Blast.explosionRisk = "Moderate"

(***************************************************************************)
(* Sensor placement: properties                                            *)
(***************************************************************************)
Placements == result.placements

PlacementsOfPriority(priority) ==
    Cardinality({i \in 1..Len(Placements) : Placements[i].priority = priority})

\* C15: for every requested count >= 1 there are exactly count placements: one
\* at the source, min(3, ceil(0.4 count)) downwind, min(3, ceil(0.3 count))
\* crosswind and the remainder count - 1 - downwind - crosswind on the perimeter.
C15_PlacementCounts ==
    (/\ result.op = "recommendSensors"
     /\ call.sensorCount # Undefined
     /\ call.sensorCount >= 1)
    => LET count == call.sensorCount
           downwind == IF (4 * count + 9) \div 10 < 3 THEN (4 * count + 9) \div 10 ELSE 3
           crosswind == IF (3 * count + 9) \div 10 < 3 THEN (3 * count + 9) \div 10 ELSE 3
       IN  /\ Len(Placements) = count
           /\ PlacementsOfPriority(1) = 1
           /\ PlacementsOfPriority(2) = downwind
           /\ PlacementsOfPriority(3) = crosswind
           /\ PlacementsOfPriority(4) = count - 1 - downwind - crosswind

(***************************************************************************)
(* Unit conversion: properties                                             *)
(***************************************************************************)
\* A positive value in ppm or percent of a known chemical was converted to
\* mg/m3 and back.
RoundTrip ==
    /\ prev.op = "convertConcentration"
    /\ call.op = "convertConcentration"
    /\ Found(call.chemical)
    /\ prev.call.value > 0
    /\ prev.call.fromUnit \in {"ppm", "percent"}
    /\ prev.call.toUnit = "mg/m3"

\* fromUnit = toUnit, or an unknown chemical: the value is returned unchanged.
IdentityConversions ==
    (/\ result.op = "convertConcentration"
     /\ (call.fromUnit = call.toUnit \/ ~Found(call.chemical)))
    => result.value = call.value

\* C16 as stated: ppm -> mg/m3 -> ppm and percent -> mg/m3 -> percent
\* reproduce v, and a conversion with fromUnit = toUnit or for an unknown
\* chemical returns v unchanged.
C16_RoundTripExact ==
    /\ RoundTrip => result.value = prev.call.value
    /\ IdentityConversions

\* C16 amended: the round trips reproduce v within tolerance, here 0.003; a
\* conversion with fromUnit = toUnit or for an unknown chemical returns v
\* unchanged.
C16_RoundTripWithinTolerance ==
    /\ RoundTrip => Abs(result.value - prev.call.value) <= 3
    /\ IdentityConversions

\* A round trip that comes back next to the value it started from.
C16_Witness ==
    /\ RoundTrip
    /\ result.value # prev.call.value
    /\ Abs(result.value - prev.call.value) <= 3

(***************************************************************************)
(* Blast assessment: temperature and pressure                              *)
(***************************************************************************)
\* The previous call assessed the same chemical at the same concentration, at a
\* temperature and a pressure not above those of the last call.
ConditionsRaised ==
    /\ prev.op = "assessBlast"
    /\ call.op = "assessBlast"
    /\ prev.call.chemical = call.chemical
    /\ prev.call.concentration = call.concentration
    /\ prev.call.temperature <= call.temperature
    /\ prev.call.pressure <= call.pressure

\* C21: for a fixed chemical and concentration, raising the temperature or the
\* pressure never lowers explosionRisk, potentialOverpressure or safeDistance,
\* and none of these is negative or NaN.
C21_RaisedConditionsNeverLower ==
    /\ result.op = "assessBlast" =>
          /\ Ge(Blast.potentialOverpressure, 0)
          /\ Ge(Blast.safeDistance, 0)
    /\ ConditionsRaised =>
          /\ RiskRank(prev.result.blast.explosionRisk) <= RiskRank(Blast.explosionRisk)
          /\ Le(prev.result.blast.potentialOverpressure, Blast.potentialOverpressure)
          /\ Le(prev.result.blast.safeDistance, Blast.safeDistance)

(***************************************************************************)
(* Mass balance: the container and the ratios                              *)
(***************************************************************************)
ContainerGiven == Truthy(call.containerVolume) /\ Truthy(call.initialMass)

Finite(x) == ~IsNaN(x) /\ x # Infinity /\ x # 0 - Infinity /\ x # Undefined

\* C22: with containerVolume and initialMass given and release rate 0,
\* timeToEmpty is not infinite or NaN; poolDuration is undefined whenever pool
\* evaporation is zero and is a finite positive number whenever it is defined.
C22_RatiosGuarded ==
    MassBalanceOfKnown =>
        /\ (ContainerGiven /\ call.releaseRate = 0) =>
              (~IsNaN(Mass.timeToEmpty) /\ Mass.timeToEmpty # Infinity)
        /\ Mass.poolEvaporation = 0 => Mass.poolDuration = Undefined
        /\ Mass.poolDuration # Undefined =>
              (Finite(Mass.poolDuration) /\ Mass.poolDuration > 0)

\* C27: when containerVolume and initialMass are given, totalReleased is at most
\* initialMass for every rate and duration.
C27_ReleaseWithinContainer ==
    (MassBalanceOfKnown /\ ContainerGiven) => Mass.totalReleased <= call.initialMass

(***************************************************************************)
(* Leak detection: the severity level along the measured concentration     *)
(***************************************************************************)
\* Two detectLeak results of one known chemical and one detector setting, the
\* second for the larger measured concentration.
MeasuredRaised ==
    /\ prev.op = "detectLeak"
    /\ result.op = "detectLeak"
    /\ Found(call.chemical)
    /\ prev.call.measured <= call.measured

\* C28: for a fixed known chemical, background and multiplier the severityLevel
\* of detectLeak never falls when the measured concentration rises, is None
\* exactly when isLeaking is false, and is at least Low for every leaking
\* measurement, also between the threshold and twice the threshold and for a
\* chemical whose AEGL-1 is 0.
C28_SeverityMonotone ==
    /\ (result.op = "detectLeak" /\ Found(call.chemical)) =>
          /\ (Leak.severityLevel = "None") <=> ~Leak.isLeaking
          /\ Leak.isLeaking => RiskRank(Leak.severityLevel) >= RiskRank("Low")
    /\ MeasuredRaised =>
          RiskRank(prev.result.leak.severityLevel) <= RiskRank(Leak.severityLevel)

\* Phosgene (AEGL-1 = 0): no leak at the threshold, then a leak measured between
\* the threshold and twice the threshold, reported as Low.
C28_Witness ==
    /\ MeasuredRaised
    /\ Lookup(call.chemical).aegl1 = 0
    /\ ~prev.result.leak.isLeaking
    /\ Leak.isLeaking
    /\ call.measured > Leak.detectionThreshold
    /\ call.measured < 2 * Leak.detectionThreshold
    /\ Leak.severityLevel = "Low"

(***************************************************************************)
(* The two converters                                                      *)
(***************************************************************************)
\* C30: for every known chemical, value and pair of units, convertConcentration
\* of the dispersion module returns the same number as convertConcentrationUnit
\* of the chemical utilities.
C30_ConvertersAgree ==
    (result.op = "dispersionConvert" /\ Found(prev.call.chemical)) =>
        result.value = prev.result.value

(***************************************************************************)
(* The classifier's classes in the stability-factor table                  *)
(***************************************************************************)
\* A computeZones call whose weather-impact override is the result of the
\* calculateWeatherImpact call before it.
ZonesAfterImpact ==
    /\ prev.op = "calculateWeatherImpact"
    /\ result.op = "computeZones"

\* C25: every stability class calculateWeatherImpact outputs, passed to
\* computeZones as the weather-impact override, is a case of the
\* stability-factor table (A = 0.5, B = 0.7, C = 0.9, D = 1.0, E = 1.2,
\* F = 1.5): the default branch is never taken for it.
C25_ClassSelectsOwnEntry ==
    ZonesAfterImpact =>
        /\ EffectiveStabilityClass(call.params) = prev.result.impact.stabilityClass
        /\ EffectiveStabilityClass(call.params) \in StabilityFactorCases

(***************************************************************************)
(* Detailed results: the concentration profile                             *)
(***************************************************************************)
Profile == Detail.concentrationProfile

\* C24: the concentration profile of computeDetailedDispersion has exactly 21
\* samples; their distances never decrease, start at 0 and end at 1.2 times
\* yellow.distance (to the two decimals the samples are rounded to); the first
\* concentration is the red-zone concentration and the concentrations never
\* increase along the profile, for every stability class and wind speed.
C24_ProfileShape ==
    result.op = "computeDetailedDispersion" =>
        /\ Len(Profile) = 21
        /\ Profile[1].distance = 0
        /\ ~IsNaN(Profile[21].distance)
        /\ Abs(Profile[21].distance - FMul(Detail.zones.yellow.distance, 1200)) <= 5
        /\ \A i \in 1..20 : Le(Profile[i].distance, Profile[i + 1].distance)
        /\ Profile[1].concentration = Detail.zones.red.concentration
        /\ \A i \in 1..20 : Ge(Profile[i].concentration, Profile[i + 1].concentration)

\* C26: within one computeDetailedDispersion call the stability class that
\* scales the zone distances (the class of the weather-impact override when
\* there is one, the scenario's own class otherwise) is the class sigma-y,
\* sigma-z and the concentration profile are computed for.
C26_OneStabilityClass ==
    result.op = "computeDetailedDispersion" =>
        LET zoneClass == EffectiveStabilityClass(call.params)
            distance == FMul(Detail.zones.yellow.distance, 1000 * Milli)
        IN  /\ Detail.dispersionCoefficients.sigmaY = calculateSigmaY(distance, zoneClass)
            /\ Detail.dispersionCoefficients.sigmaZ = calculateSigmaZ(distance, zoneClass)
            /\ Profile =
                  generateConcentrationProfile(
                      [call.params EXCEPT !.stabilityClass = zoneClass],
                      Detail.zones.red.concentration,
                      FMul(Detail.zones.yellow.distance, 1200))

(***************************************************************************)
(* Protective actions: properties                                          *)
(***************************************************************************)
Action == result.action

FullEvacuation ==
    /\ result.op = "evaluateProtectiveAction"
    /\ call.shelterType = "fullEvacuation"

\* 10 - timeToDetection of the scenario of the call.
AvailableTime == 10 * Milli - TimeToDetection(call.params)

\* available > 0.7 * evacuationTime, false for an evacuationTime that is NaN.
PartialMark ==
    /\ ~IsNaN(call.evacuationTime)
    /\ 10 * AvailableTime > 7 * call.evacuationTime

\* C23: for kind fullEvacuation the tier follows available = 10 -
\* timeToDetection: 95/98 when available > evacuationTime, 75/85 when
\* available > 0.7 * evacuationTime, 30/40 otherwise; and for a fixed scenario
\* the effectiveness never increases when evacuationTime increases.
C23_EvacuationTiers ==
    /\ FullEvacuation =>
          /\ Action.effectivenessPercent =
                IF Gt(AvailableTime, call.evacuationTime) THEN 95 * Milli
                ELSE IF PartialMark THEN 75 * Milli
                ELSE 30 * Milli
          /\ Action.casualtyReductionPercent =
                IF Gt(AvailableTime, call.evacuationTime) THEN 98 * Milli
                ELSE IF PartialMark THEN 85 * Milli
                ELSE 40 * Milli
    /\ (FullEvacuation /\ prev.op = "evaluateProtectiveAction"
          /\ prev.call.evacuationTime <= call.evacuationTime)
       => Action.effectivenessPercent <= prev.result.action.effectivenessPercent

\* Nine minutes available: an evacuation of 9 minutes is partial, after one of
\* 8.5 minutes that was full.
C23_Witness ==
    /\ FullEvacuation
    /\ prev.op = "evaluateProtectiveAction"
    /\ AvailableTime = 9 * Milli
    /\ prev.call.evacuationTime = 8500
    /\ prev.result.action.effectivenessPercent = 95 * Milli
    /\ call.evacuationTime = 9 * Milli
    /\ Action.effectivenessPercent = 75 * Milli
    /\ Action.casualtyReductionPercent = 85 * Milli

\* C29: evaluateProtectiveAction for a full evacuation with the evacuationTime
\* that computeDetailedDispersion reports for the same scenario returns the
\* insufficient-time tier 30/40, for every scenario.
C29_ReportedEvacuationInsufficient ==
    (FullEvacuation /\ prev.op = "computeDetailedDispersion") =>
        /\ call.evacuationTime = prev.result.detail.evacuationTime
        /\ Action.effectivenessPercent = 30 * Milli
        /\ Action.casualtyReductionPercent = 40 * Milli

\* A scenario detected after one minute, with nine minutes available and a
\* reported evacuation time above 20 minutes: the insufficient tier.
C29_Witness ==
    /\ FullEvacuation
    /\ prev.op = "computeDetailedDispersion"
    /\ prev.result.detail.timeToDetection = Milli
    /\ AvailableTime = 9 * Milli
    /\ Ge(call.evacuationTime, 20 * Milli)
    /\ Action.effectivenessPercent = 30 * Milli
====
